---- MODULE Spec2Model ----
(***************************************************************************)
(* Salesforce block and analytics tools of apps/sim.                       *)
(*                                                                         *)
(*   - getInstanceUrl      tools/salesforce/{reports,dashboards}.ts        *)
(*   - tools.config.tool   blocks/salesforce (operation dispatch)          *)
(*   - tools.config.params blocks/salesforce (parameter sanitising)        *)
(*                                                                         *)
(* JavaScript strings are TLA+ strings over printable ASCII; every other   *)
(* JavaScript value is a record [t, v, e]: its type tag, its text, and,    *)
(* for an object or an array, its own properties in OwnPropertyKeys order. *)
(***************************************************************************)
EXTENDS Integers, Sequences, FiniteSets, TLC

VARIABLES
    idToken,      \* getInstanceUrl: the idToken argument
    instanceUrl,  \* getInstanceUrl: the instanceUrl argument
    issued,       \* how the identity provider built idToken (history, not read by the code)
    loggerName,   \* the module whose copy of getInstanceUrl runs
    ret,          \* completion of getInstanceUrl: none, return or throw
    log,          \* the logging sink: the sequence of logger.error calls
    atobCalls,    \* number of times the token payload was handed to atob
    params,       \* the block's parameter bag handed to tools.config
    toolRet,      \* completion of tools.config.tool
    cleanRet,     \* completion of tools.config.params
    handed,       \* the bag as the host handed it over (history, not read by the code)
    cleanIsParams,\* whether params returned the very object it was given
    cleanAgain,   \* completion of tools.config.params on the bag it returned before
    toolId,       \* the id of the tool descriptor the host runs
    toolParams,   \* the params object the host hands to the descriptor's functions
    pc,           \* the host's position in the run of the tool
    urlRet,       \* completion of request.url
    headersRet,   \* completion of request.headers
    bodyRet,      \* completion of request.body
    response,     \* the HTTP response: ok flag and body text
    transformRet, \* completion of transformResponse
    sent,         \* the requests issued, in order
    bodyRead,     \* whether transformResponse read the response body
    bodyAgain     \* completion of request.body on the serialised body it built before

toolVars == <<toolId, toolParams, pc, urlRet, headersRet, bodyRet, response, transformRet,
              sent, bodyRead, bodyAgain>>

resolverVars == <<idToken, instanceUrl, issued, loggerName, ret>>

blockVars == <<params, toolRet, cleanRet, handed, cleanIsParams, cleanAgain>>

vars == <<idToken, instanceUrl, issued, loggerName, ret, log, atobCalls,
          params, toolRet, cleanRet, handed, cleanIsParams, cleanAgain, toolVars>>

(***************************************************************************)
(* JavaScript values                                                       *)
(***************************************************************************)
Undefined == [t |-> "undefined", v |-> "", e |-> <<>>]
Null == [t |-> "null", v |-> "", e |-> <<>>]
Str(s) == [t |-> "string", v |-> s, e |-> <<>>]
Num(s) == [t |-> "number", v |-> s, e |-> <<>>]
Bool(b) == [t |-> "boolean", v |-> IF b THEN "true" ELSE "false", e |-> <<>>]
Obj(entries) == [t |-> "object", v |-> "", e |-> entries]
Arr(entries) == [t |-> "array", v |-> "", e |-> entries]
Fn(name) == [t |-> "function", v |-> name, e |-> <<>>]

\* s.charAt(i - 1): the empty string outside the string
CharAt(s, i) == IF i >= 1 /\ i <= Len(s) THEN SubSeq(s, i, i) ELSE ""

\* s.substring(m - 1, n): the characters at the positions m..n that exist
Slice(s, m, n) ==
    LET lo == IF m < 1 THEN 1 ELSE m
        hi == IF n > Len(s) THEN Len(s) ELSE n
    IN IF lo > hi THEN "" ELSE SubSeq(s, lo, hi)

Min(S) == CHOOSE x \in S : \A y \in S : x <= y

Max(S) == CHOOSE x \in S : \A y \in S : x >= y

\* s.indexOf(c, i - 1) + 1: the first position from i on that holds c, 0 when none does.
IndexFrom(s, c, i) ==
    IF \E j \in i..Len(s) : CharAt(s, j) = c
    THEN CHOOSE j \in i..Len(s) :
             CharAt(s, j) = c /\ \A m \in i..(j - 1) : CharAt(s, m) # c
    ELSE 0

RECURSIVE JoinRange(_, _, _)
\* pieces[lo] \o ... \o pieces[hi], by halves
JoinRange(pieces, lo, hi) ==
    IF lo > hi THEN ""
    ELSE IF lo = hi THEN pieces[lo]
    ELSE LET mid == (lo + hi) \div 2
         IN JoinRange(pieces, lo, mid) \o JoinRange(pieces, mid + 1, hi)

\* pieces.join('')
Join(pieces) == JoinRange(pieces, 1, Len(pieces))

RECURSIVE FlattenRange(_, _, _)
FlattenRange(seqs, lo, hi) ==
    IF lo > hi THEN <<>>
    ELSE IF lo = hi THEN seqs[lo]
    ELSE LET mid == (lo + hi) \div 2
         IN FlattenRange(seqs, lo, mid) \o FlattenRange(seqs, mid + 1, hi)

Digits == "0123456789"

IsDigit(c) == c \in {"0", "1", "2", "3", "4", "5", "6", "7", "8", "9"}

\* The numeric literal s denotes zero: no digit before the exponent mark is other than 0.
AllZeroDigits(s) ==
    LET marks == {j \in 1..Len(s) : CharAt(s, j) \in {"e", "E"}}
        last == IF marks = {} THEN Len(s) ELSE Min(marks) - 1
    IN \A j \in 1..last : CharAt(s, j) \in {"-", ".", "0"}

\* ToBoolean
Truthy(x) ==
    CASE x.t \in {"undefined", "null"} -> FALSE
      [] x.t = "boolean" -> x.v = "true"
      [] x.t = "number" -> ~AllZeroDigits(x.v)
      [] x.t = "string" -> x.v # ""
      [] x.t \in {"object", "array", "function"} -> TRUE

\* x === y for the primitives the code compares
StrictEq(x, y) == x.t = y.t /\ x.v = y.v /\ x.t \notin {"object", "array", "function"}

(***************************************************************************)
(* Objects: own string-keyed properties in OwnPropertyKeys order (array    *)
(* indices ascending, then the other keys in creation order).              *)
(***************************************************************************)
RECURSIVE StrToNat(_, _, _)
StrToNat(s, i, acc) ==
    IF i > Len(s) THEN acc
    ELSE StrToNat(s, i + 1, acc * 10 + (IndexFrom(Digits, CharAt(s, i), 1) - 1))

RECURSIVE NatToStr(_)
NatToStr(n) ==
    IF n < 10 THEN CharAt(Digits, n + 1)
    ELSE NatToStr(n \div 10) \o CharAt(Digits, (n % 10) + 1)

RECURSIVE DigitsLess(_, _, _)
\* a < b as numbers, for canonical numeric strings a and b, from digit i on
DigitsLess(a, b, i) ==
    IF Len(a) # Len(b) THEN Len(a) < Len(b)
    ELSE IF i > Len(a) THEN FALSE
    ELSE IF CharAt(a, i) # CharAt(b, i)
    THEN IndexFrom(Digits, CharAt(a, i), 1) < IndexFrom(Digits, CharAt(b, i), 1)
    ELSE DigitsLess(a, b, i + 1)

\* A canonical numeric string below 2^32 - 1: an array index.
IsArrayIndex(k) ==
    /\ Len(k) >= 1
    /\ \A i \in 1..Len(k) : IsDigit(CharAt(k, i))
    /\ (Len(k) > 1 => CharAt(k, 1) # "0")
    /\ DigitsLess(k, "4294967295", 1)

HasOwn(o, k) == \E i \in 1..Len(o.e) : o.e[i].k = k

OwnIndex(o, k) == CHOOSE i \in 1..Len(o.e) : o.e[i].k = k

\* Where a new key goes in OwnPropertyKeys order.
InsertAt(entries, k) ==
    IF IsArrayIndex(k)
    THEN Cardinality({i \in 1..Len(entries) :
                         /\ IsArrayIndex(entries[i].k)
                         /\ DigitsLess(entries[i].k, k, 1)}) + 1
    ELSE Len(entries) + 1

\* o[k] = val on an ordinary object
ObjSet(o, k, val) ==
    IF HasOwn(o, k)
    THEN [o EXCEPT !.e[OwnIndex(o, k)].val = val]
    ELSE LET at == InsertAt(o.e, k)
         IN [o EXCEPT !.e = SubSeq(o.e, 1, at - 1) \o <<[k |-> k, val |-> val]>>
                             \o SubSeq(o.e, at, Len(o.e))]

Keys(o) == [i \in 1..Len(o.e) |-> o.e[i].k]

\* x[k] for x other than undefined and null (those throw a TypeError).
\* String.prototype.sub is inherited by every string; neither Object.prototype,
\* Array.prototype, Number.prototype nor Boolean.prototype has profile, sub or message.
GetProp(x, k) ==
    CASE x.t \in {"object", "array"} /\ HasOwn(x, k) -> x.e[OwnIndex(x, k)].val
      [] x.t = "string" /\ k = "sub" -> Fn("String.prototype.sub")
      [] x.t = "string" /\ IsArrayIndex(k) /\ DigitsLess(k, NatToStr(Len(x.v)), 1) ->
             Str(CharAt(x.v, StrToNat(k, 1, 0) + 1))
      [] OTHER -> Undefined

(***************************************************************************)
(* Library functions the resolver calls: String.prototype.split and        *)
(* replace, atob, decodeURIComponent, JSON.parse.                          *)
(***************************************************************************)
\* s.split(sep) for a one-character separator
Split(s, sep) ==
    LET at == {j \in 1..Len(s) : CharAt(s, j) = sep}
        \* the position of the k-th separator; 0 and Len(s) + 1 bound the string
        cut(k) == IF k = 0 THEN 0
                  ELSE IF k > Cardinality(at) THEN Len(s) + 1
                  ELSE CHOOSE j \in at : Cardinality({x \in at : x < j}) = k - 1
    IN [k \in 1..(Cardinality(at) + 1) |-> Slice(s, cut(k - 1) + 1, cut(k) - 1)]

\* s.replace(/a/g, b) for a one-character pattern
ReplaceAll(s, a, b) ==
    Join([i \in 1..Len(s) |-> IF CharAt(s, i) = a THEN b ELSE CharAt(s, i)])

\* The characters with codes 32..95 and 97..126 (a TLA+ string holds no grave accent).
AsciiLow == " !\"#$%&'()*+,-./0123456789:;<=>?@ABCDEFGHIJKLMNOPQRSTUVWXYZ[\\]^_"

AsciiHigh == "abcdefghijklmnopqrstuvwxyz{|}~"

\* The characters of a string, and the place of each character of an alphabet in it.
Chars(alphabet) == {CharAt(alphabet, i) : i \in 1..Len(alphabet)}

PlaceIn(alphabet) ==
    [c \in Chars(alphabet) |-> CHOOSE i \in 1..Len(alphabet) : CharAt(alphabet, i) = c]

AsciiLowPlace == PlaceIn(AsciiLow)

AsciiHighPlace == PlaceIn(AsciiHigh)

\* String.fromCharCode(b) within the modelled alphabet (printable ASCII and the
\* four control characters a TLA+ string can hold); no other character is modelled.
Chr(b) ==
    CASE b \in 32..95 -> CharAt(AsciiLow, b - 31)
      [] b \in 97..126 -> CharAt(AsciiHigh, b - 96)
      [] b = 9 -> "\t"
      [] b = 10 -> "\n"
      [] b = 12 -> "\f"
      [] b = 13 -> "\r"

\* c.charCodeAt(0) within the same alphabet
Ord(c) ==
    CASE c \in DOMAIN AsciiHighPlace -> AsciiHighPlace[c] + 96
      [] c \in DOMAIN AsciiLowPlace -> AsciiLowPlace[c] + 31
      [] c = "\t" -> 9
      [] c = "\n" -> 10
      [] c = "\f" -> 12
      [] c = "\r" -> 13

B64Alphabet == "ABCDEFGHIJKLMNOPQRSTUVWXYZabcdefghijklmnopqrstuvwxyz0123456789+/"

B64Place == PlaceIn(B64Alphabet)

\* The 6-bit value of a base64 character, -1 for any other character.
B64Index(c) == IF c \in DOMAIN B64Place THEN B64Place[c] - 1 ELSE -1

StripAsciiWhitespace(s) ==
    Join([i \in 1..Len(s) |->
             IF CharAt(s, i) \in {" ", "\t", "\n", "\f", "\r"} THEN "" ELSE CharAt(s, i)])

\* The bytes of the group of up to four base64 characters of s that starts at i.
B64Group(s, i) ==
    LET left == Len(s) - i + 1
        a == B64Index(CharAt(s, i))
        b == B64Index(CharAt(s, i + 1))
        c == B64Index(CharAt(s, i + 2))
        d == B64Index(CharAt(s, i + 3))
        n24 == a * 262144 + b * 4096 + c * 64 + d
        n18 == a * 4096 + b * 64 + c
        n12 == a * 64 + b
    IN CASE left >= 4 -> <<n24 \div 65536, (n24 \div 256) % 256, n24 % 256>>
         [] left = 3 -> <<(n18 \div 4) \div 256, (n18 \div 4) % 256>>
         [] left = 2 -> <<n12 \div 16>>

\* atob(data): the forgiving-base64 decode. ok = FALSE is the InvalidCharacterError;
\* bytes are the char codes of the binary string it returns.
Atob(data) ==
    LET d1 == StripAsciiWhitespace(data)
        n1 == Len(d1)
        d2 == IF n1 % 4 = 0 /\ n1 > 0
              THEN IF Slice(d1, n1 - 1, n1) = "==" THEN Slice(d1, 1, n1 - 2)
                   ELSE IF CharAt(d1, n1) = "=" THEN Slice(d1, 1, n1 - 1)
                   ELSE d1
              ELSE d1
        groups == (Len(d2) + 3) \div 4
    IN IF Len(d2) % 4 = 1 \/ \E i \in 1..Len(d2) : B64Index(CharAt(d2, i)) < 0
       THEN [ok |-> FALSE, bytes |-> <<>>]
       ELSE [ok |-> TRUE,
             bytes |-> FlattenRange([g \in 1..groups |-> B64Group(d2, 4 * g - 3)], 1, groups)]

HexLower == "0123456789abcdef"

\* n.toString(16)
ToHex(n) ==
    IF n < 16 THEN CharAt(HexLower, n + 1)
    ELSE CharAt(HexLower, (n \div 16) + 1) \o CharAt(HexLower, (n % 16) + 1)

\* split, map each character c to "%" and the last two characters of "00" and
\* c.charCodeAt(0).toString(16), join
PercentEscape(bytes) ==
    Join([i \in 1..Len(bytes) |->
             LET padded == "00" \o ToHex(bytes[i])
             IN "%" \o Slice(padded, Len(padded) - 1, Len(padded))])

HexLowerPlace == PlaceIn(HexLower)

HexUpperPlace == PlaceIn("ABCDEF")

\* The value of a hexadecimal digit of either case, -1 for any other character.
HexVal(c) ==
    CASE c \in DOMAIN HexLowerPlace -> HexLowerPlace[c] - 1
      [] c \in DOMAIN HexUpperPlace -> HexUpperPlace[c] + 9
      [] OTHER -> -1

\* The octet of the escape %XX at position i of s, -1 when there is none.
OctetAt(s, i) ==
    IF CharAt(s, i) = "%" /\ HexVal(CharAt(s, i + 1)) >= 0 /\ HexVal(CharAt(s, i + 2)) >= 0
    THEN HexVal(CharAt(s, i + 1)) * 16 + HexVal(CharAt(s, i + 2))
    ELSE -1

\* The number of octets of the UTF-8 sequence a lead octet opens, 0 for an octet
\* that cannot open one.
Utf8Length(b) ==
    CASE b < 128 -> 1
      [] b \in 192..223 -> 2
      [] b \in 224..239 -> 3
      [] b \in 240..247 -> 4
      [] OTHER -> 0

\* The code point of the n-octet sequence of escapes at position i of s, -1 when
\* the octets are no valid UTF-8 encoding.
Utf8CodePoint(s, i, n) ==
    LET b0 == OctetAt(s, i)
        b1 == OctetAt(s, i + 3)
        b2 == OctetAt(s, i + 6)
        b3 == OctetAt(s, i + 9)
        cont(b) == b \in 128..191
        cp == CASE n = 2 -> (b0 % 32) * 64 + (b1 % 64)
                [] n = 3 -> (b0 % 16) * 4096 + (b1 % 64) * 64 + (b2 % 64)
                [] n = 4 -> (b0 % 8) * 262144 + (b1 % 64) * 4096 + (b2 % 64) * 64 + (b3 % 64)
    IN CASE n = 2 /\ cont(b1) /\ cp >= 128 -> cp
         [] n = 3 /\ cont(b1) /\ cont(b2) /\ cp >= 2048 /\ cp \notin 55296..57343 -> cp
         [] n = 4 /\ cont(b1) /\ cont(b2) /\ cont(b3) /\ cp \in 65536..1114111 -> cp
         [] OTHER -> -1

\* decodeURIComponent(s). ok = FALSE is the URIError: a "%" not followed by two
\* hexadecimal digits, or escaped octets that are no UTF-8.
DecodeURIComponent(s) ==
    LET octets == [i \in 1..Len(s) |-> OctetAt(s, i)]
        octet(i) == IF i >= 1 /\ i <= Len(s) THEN octets[i] ELSE -1
        escape(i) == CharAt(s, i) = "%"
        \* the escape at i opens a valid sequence of n octets
        opens(i, n) == /\ Utf8Length(octet(i)) = n
                       /\ (n >= 2 => Utf8CodePoint(s, i, n) >= 0)
        \* the escape at i is a continuation octet of a sequence opened before it
        continues(i) == /\ octet(i) \in 128..191
                        /\ \E d \in 1..3 : \E n \in (d + 1)..4 : opens(i - 3 * d, n)
        hex(i) == escape(i - 1) \/ escape(i - 2)
        bad(i) == /\ escape(i)
                  /\ \/ octet(i) < 0
                     \/ /\ octet(i) >= 128
                        /\ ~continues(i)
                        /\ \A n \in 2..4 : ~opens(i, n)
        piece(i) ==
            CASE ~escape(i) /\ ~hex(i) -> CharAt(s, i)
              [] ~escape(i) /\ hex(i) -> ""
              [] escape(i) /\ octet(i) < 128 -> Chr(octet(i))
              [] escape(i) /\ octet(i) >= 128 /\ continues(i) -> ""
              [] OTHER -> Chr(Utf8CodePoint(s, i, Utf8Length(octet(i))))
    IN IF \E i \in 1..Len(s) : bad(i)
       THEN [ok |-> FALSE, s |-> ""]
       ELSE [ok |-> TRUE, s |-> Join([i \in 1..Len(s) |-> piece(i)])]

(***************************************************************************)
(* JSON.parse (ECMA-404). A parse result is [ok, next, val]: ok = FALSE is *)
(* the SyntaxError, next the position after the value.                     *)
(***************************************************************************)
ParseFail == [ok |-> FALSE, next |-> 0, val |-> Undefined]

\* The first position from i on that holds no character of the set cs
\* (Len(s) + 1 at the end of the string).
SkipChars(s, i, cs) ==
    CHOOSE j \in i..(Len(s) + 1) :
        /\ j > Len(s) \/ CharAt(s, j) \notin cs
        /\ \A m \in i..(j - 1) : CharAt(s, m) \in cs

SkipWs(s, i) == IF i < 1 THEN i ELSE SkipChars(s, i, {" ", "\t", "\n", "\r"})

SkipDigits(s, i) ==
    SkipChars(s, i, {"0", "1", "2", "3", "4", "5", "6", "7", "8", "9"})

\* The number of consecutive backslashes of s that end at position j.
BackslashRun(s, j) ==
    CHOOSE r \in 0..j :
        /\ \A m \in (j - r + 1)..j : CharAt(s, m) = "\\"
        /\ CharAt(s, j - r) # "\\"

\* The JSON string whose opening quote is at position i of s.
ParseString(s, i) ==
    LET closing(j) == CharAt(s, j) = "\"" /\ BackslashRun(s, j - 1) % 2 = 0
        closed == \E j \in (i + 1)..Len(s) : closing(j)
        close == CHOOSE j \in (i + 1)..Len(s) :
                     closing(j) /\ \A m \in (i + 1)..(j - 1) : ~closing(m)
        \* a backslash that opens an escape, and the characters an escape takes
        opens(p) == CharAt(s, p) = "\\" /\ BackslashRun(s, p - 1) % 2 = 0
        width(p) == IF CharAt(s, p + 1) = "u" THEN 6 ELSE 2
        inside(p) == \E d \in 1..5 : opens(p - d) /\ p - d > i /\ d < width(p - d)
        code(p) == HexVal(CharAt(s, p + 2)) * 4096 + HexVal(CharAt(s, p + 3)) * 256
                       + HexVal(CharAt(s, p + 4)) * 16 + HexVal(CharAt(s, p + 5))
        valid(p) ==
            \/ CharAt(s, p + 1) \in {"\"", "\\", "/", "b", "f", "n", "r", "t"}
            \/ /\ CharAt(s, p + 1) = "u"
               /\ p + 5 < close
               /\ \A k \in 2..5 : HexVal(CharAt(s, p + k)) >= 0
        piece(p) ==
            CASE inside(p) -> ""
              [] ~opens(p) -> CharAt(s, p)
              [] CharAt(s, p + 1) \in {"\"", "\\", "/"} -> CharAt(s, p + 1)
              [] CharAt(s, p + 1) = "b" -> Chr(8)
              [] CharAt(s, p + 1) = "f" -> "\f"
              [] CharAt(s, p + 1) = "n" -> "\n"
              [] CharAt(s, p + 1) = "r" -> "\r"
              [] CharAt(s, p + 1) = "t" -> "\t"
              [] CharAt(s, p + 1) = "u" -> Chr(code(p))
    IN IF ~closed THEN ParseFail
       ELSE IF \E p \in (i + 1)..(close - 1) :
                  \/ CharAt(s, p) \in {"\t", "\n", "\f", "\r"}
                  \/ (opens(p) /\ ~inside(p) /\ ~valid(p))
       THEN ParseFail
       ELSE [ok |-> TRUE, next |-> close + 1,
             val |-> Str(Join([k \in 1..(close - 1 - i) |-> piece(i + k)]))]

\* -? (0 | [1-9][0-9]*) (. [0-9]+)? ([eE] [+-]? [0-9]+)?
ParseNumber(s, i) ==
    LET p1 == IF CharAt(s, i) = "-" THEN i + 1 ELSE i
        p2 == IF CharAt(s, p1) = "0" THEN p1 + 1 ELSE SkipDigits(s, p1)
        hasFrac == CharAt(s, p2) = "."
        p3 == IF hasFrac THEN SkipDigits(s, p2 + 1) ELSE p2
        hasExp == CharAt(s, p3) \in {"e", "E"}
        q == IF CharAt(s, p3 + 1) \in {"+", "-"} THEN p3 + 2 ELSE p3 + 1
        p4 == IF hasExp THEN SkipDigits(s, q) ELSE p3
    IN IF \/ ~IsDigit(CharAt(s, p1))
          \/ (hasFrac /\ ~IsDigit(CharAt(s, p2 + 1)))
          \/ (hasExp /\ ~IsDigit(CharAt(s, q)))
       THEN ParseFail
       ELSE [ok |-> TRUE, next |-> p4, val |-> Num(Slice(s, i, p4 - 1))]

RECURSIVE ParseValue(_, _)
RECURSIVE ParseMembers(_, _, _)
RECURSIVE ParseElements(_, _, _)

\* The JSON value that starts at position i of s (no leading whitespace).
ParseValue(s, i) ==
    LET c == CharAt(s, i)
    IN CASE c = "{" ->
                IF CharAt(s, SkipWs(s, i + 1)) = "}"
                THEN [ok |-> TRUE, next |-> SkipWs(s, i + 1) + 1, val |-> Obj(<<>>)]
                ELSE ParseMembers(s, SkipWs(s, i + 1), Obj(<<>>))
         [] c = "[" ->
                IF CharAt(s, SkipWs(s, i + 1)) = "]"
                THEN [ok |-> TRUE, next |-> SkipWs(s, i + 1) + 1, val |-> Arr(<<>>)]
                ELSE ParseElements(s, SkipWs(s, i + 1), Arr(<<>>))
         [] c = "\"" -> ParseString(s, i)
         [] c = "t" /\ Slice(s, i, i + 3) = "true" ->
                [ok |-> TRUE, next |-> i + 4, val |-> Bool(TRUE)]
         [] c = "f" /\ Slice(s, i, i + 4) = "false" ->
                [ok |-> TRUE, next |-> i + 5, val |-> Bool(FALSE)]
         [] c = "n" /\ Slice(s, i, i + 3) = "null" ->
                [ok |-> TRUE, next |-> i + 4, val |-> Null]
         [] c = "-" \/ IsDigit(c) -> ParseNumber(s, i)
         [] OTHER -> ParseFail

\* The members of an object from the key at position i on, added to o; a repeated
\* key overwrites the earlier value.
ParseMembers(s, i, o) ==
    LET key == IF CharAt(s, i) = "\"" THEN ParseString(s, i) ELSE ParseFail
        colon == SkipWs(s, key.next)
        value == ParseValue(s, SkipWs(s, colon + 1))
        after == SkipWs(s, value.next)
        o2 == ObjSet(o, key.val.v, value.val)
    IN IF ~key.ok \/ CharAt(s, colon) # ":" THEN ParseFail
       ELSE IF ~value.ok THEN ParseFail
       ELSE CASE CharAt(s, after) = "," -> ParseMembers(s, SkipWs(s, after + 1), o2)
              [] CharAt(s, after) = "}" -> [ok |-> TRUE, next |-> after + 1, val |-> o2]
              [] OTHER -> ParseFail

\* The elements of an array from the value at position i on, appended to a.
ParseElements(s, i, a) ==
    LET value == ParseValue(s, i)
        after == SkipWs(s, value.next)
        a2 == [a EXCEPT !.e = Append(a.e, [k |-> NatToStr(Len(a.e)), val |-> value.val])]
    IN IF ~value.ok THEN ParseFail
       ELSE CASE CharAt(s, after) = "," -> ParseElements(s, SkipWs(s, after + 1), a2)
              [] CharAt(s, after) = "]" -> [ok |-> TRUE, next |-> after + 1, val |-> a2]
              [] OTHER -> ParseFail

\* JSON.parse(text)
JsonParse(text) ==
    LET r == ParseValue(text, SkipWs(text, 1))
    IN IF r.ok /\ SkipWs(text, r.next) > Len(text)
       THEN [ok |-> TRUE, val |-> r.val]
       ELSE [ok |-> FALSE, val |-> Undefined]

(***************************************************************************)
(* getInstanceUrl (reports.ts and dashboards.ts hold the same function,    *)
(* each with its own logger).                                              *)
(***************************************************************************)
\* A variant that captures the whole string after the scheme, path included.
MatchWholeUrl(s) ==
    IF Slice(s, 1, 8) = "https://" /\ Len(s) >= 9 /\ CharAt(s, 9) # "/"
    THEN [matched |-> TRUE, g1 |-> s]
    ELSE [matched |-> FALSE, g1 |-> ""]

\* s.match(/^(https:\/\/[^/]+)/): matched, and the capture group match[1]
MatchOrigin(s) ==
    LET slash == IndexFrom(s, "/", 9)
        last == IF slash = 0 THEN Len(s) ELSE slash - 1
    IN IF Slice(s, 1, 8) = "https://" /\ last >= 9
       THEN [matched |-> TRUE, g1 |-> Slice(s, 1, last)]
       ELSE [matched |-> FALSE, g1 |-> ""]

LoginHost == "https://login.salesforce.com"

RequiredMessage == "Salesforce instance URL is required but not provided"

DecodeFailedMessage == "Failed to decode Salesforce idToken"

\* Completions: a returned value, a thrown error, or the end of a block reached.
Returned(val) == [k |-> "return", val |-> val, name |-> "", message |-> ""]
Thrown(name, message) == [k |-> "throw", val |-> Undefined, name |-> name, message |-> message]
Fell == [k |-> "fall", val |-> Undefined, name |-> "", message |-> ""]
NotCalled == [k |-> "none", val |-> Undefined, name |-> "", message |-> ""]

\* A variant that rejects every origin that begins with the login host.
UsableSubMatchByPrefix(match) ==
    match.matched /\ Slice(match.g1, 1, Len(LoginHost)) # LoginHost

\* A variant without the login-host exclusion.
UsableSubMatchAnyOrigin(match) == match.matched

\* match && match[1] !== 'https://login.salesforce.com'
UsableSubMatch(match) == match.matched /\ match.g1 # LoginHost

\* A variant that rejects the login host in profile as it does in sub.
InspectClaimsLoginExcluded(profile, sub) ==
    IF Truthy(profile)
    THEN IF profile.t # "string"
         THEN Thrown("TypeError", "decoded.profile.match is not a function")
         ELSE IF UsableSubMatch(MatchOrigin(profile.v))
         THEN Returned(Str(MatchOrigin(profile.v).g1))
         ELSE Fell
    ELSE IF Truthy(sub)
    THEN IF sub.t # "string"
         THEN Thrown("TypeError", "decoded.sub.match is not a function")
         ELSE IF UsableSubMatch(MatchOrigin(sub.v))
         THEN Returned(Str(MatchOrigin(sub.v).g1))
         ELSE Fell
    ELSE Fell

\* A variant that goes on to sub when profile holds no origin.
InspectClaimsSubFallback(profile, sub) ==
    IF Truthy(profile) /\ profile.t # "string"
    THEN Thrown("TypeError", "decoded.profile.match is not a function")
    ELSE IF Truthy(profile) /\ MatchOrigin(profile.v).matched
    THEN Returned(Str(MatchOrigin(profile.v).g1))
    ELSE IF Truthy(sub)
    THEN IF sub.t # "string"
         THEN Thrown("TypeError", "decoded.sub.match is not a function")
         ELSE IF UsableSubMatch(MatchOrigin(sub.v))
         THEN Returned(Str(MatchOrigin(sub.v).g1))
         ELSE Fell
    ELSE Fell

\* if (decoded.profile) {...} else if (decoded.sub) {...}: the completion
InspectClaims(profile, sub) ==
    IF Truthy(profile)
    THEN IF profile.t # "string"
         THEN Thrown("TypeError", "decoded.profile.match is not a function")
         ELSE IF MatchOrigin(profile.v).matched
         THEN Returned(Str(MatchOrigin(profile.v).g1))
         ELSE Fell
    ELSE IF Truthy(sub)
    THEN IF sub.t # "string"
         THEN Thrown("TypeError", "decoded.sub.match is not a function")
         ELSE IF UsableSubMatch(MatchOrigin(sub.v))
         THEN Returned(Str(MatchOrigin(sub.v).g1))
         ELSE Fell
    ELSE Fell

\* The try block from the result of JSON.parse on.
AfterParse(parsed) ==
    IF ~parsed.ok THEN Thrown("SyntaxError", "JSON.parse")
    ELSE IF parsed.val.t = "null" THEN Thrown("TypeError", "decoded is null")
    ELSE InspectClaims(GetProp(parsed.val, "profile"), GetProp(parsed.val, "sub"))

\* The try block from the result of decodeURIComponent on.
AfterUriDecode(jsonPayload) ==
    IF ~jsonPayload.ok THEN Thrown("URIError", "decodeURIComponent")
    ELSE AfterParse(JsonParse(jsonPayload.s))

\* The try block from the result of atob on.
AfterAtob(binary) ==
    IF ~binary.ok THEN Thrown("InvalidCharacterError", "atob")
    ELSE AfterUriDecode(DecodeURIComponent(PercentEscape(binary.bytes)))

\* The body of the try block: its completion, and whether atob was reached.
DecodeIdToken(token) ==
    IF Len(Split(token.v, ".")) < 2
    THEN [c |-> Thrown("TypeError", "base64Url is undefined"), atob |-> 0]
    ELSE [c |-> AfterAtob(Atob(ReplaceAll(ReplaceAll(Split(token.v, ".")[2],
                                                     "-", "+"), "_", "/"))),
          atob |-> 1]

\* logger.error('Failed to decode Salesforce idToken', { error })
LogEntry(logger, error) ==
    [logger |-> logger, level |-> "error", message |-> DecodeFailedMessage,
     error |-> error.name]

\* A variant that also logs when the try block ends without a URL.
AfterTryLogsFall(try, logger) ==
    CASE try.c.k = "return" -> [c |-> try.c, logged |-> <<>>, atob |-> try.atob]
      [] try.c.k \in {"throw", "fall"} ->
             [c |-> Thrown("Error", RequiredMessage),
              logged |-> <<LogEntry(logger, try.c)>>, atob |-> try.atob]

\* What follows the try block that completed as try: the catch block logs a
\* thrown error, and the function goes on to its last line unless try returned.
AfterTry(try, logger) ==
    CASE try.c.k = "return" -> [c |-> try.c, logged |-> <<>>, atob |-> try.atob]
      [] try.c.k = "throw" ->
             [c |-> Thrown("Error", RequiredMessage),
              logged |-> <<LogEntry(logger, try.c)>>, atob |-> try.atob]
      [] try.c.k = "fall" ->
             [c |-> Thrown("Error", RequiredMessage), logged |-> <<>>, atob |-> try.atob]

\* A catch block that logs and rethrows the decode exception.
AfterTryRethrow(try, logger) ==
    CASE try.c.k = "return" -> [c |-> try.c, logged |-> <<>>, atob |-> try.atob]
      [] try.c.k = "throw" ->
             [c |-> try.c, logged |-> <<LogEntry(logger, try.c)>>, atob |-> try.atob]
      [] try.c.k = "fall" ->
             [c |-> Thrown("Error", RequiredMessage), logged |-> <<>>, atob |-> try.atob]

\* A variant that decodes the token before it looks at the explicit URL.
getInstanceUrlTokenFirst(token, url, logger) ==
    LET tried == IF Truthy(token) THEN AfterTry(DecodeIdToken(token), logger)
                 ELSE [c |-> Thrown("Error", RequiredMessage), logged |-> <<>>, atob |-> 0]
    IN IF tried.c.k = "throw" /\ Truthy(url)
       THEN [tried EXCEPT !.c = Returned(url)]
       ELSE tried

\* A variant whose catch block logs and rethrows the decode exception.
getInstanceUrlRethrow(token, url, logger) ==
    IF Truthy(url)
    THEN [c |-> Returned(url), logged |-> <<>>, atob |-> 0]
    ELSE IF Truthy(token)
    THEN AfterTryRethrow(DecodeIdToken(token), logger)
    ELSE [c |-> Thrown("Error", RequiredMessage), logged |-> <<>>, atob |-> 0]

\* getInstanceUrl(idToken, instanceUrl) of the module whose logger is logger:
\* its completion c, the logger.error calls it made, and its calls of atob.
getInstanceUrl(token, url, logger) ==
    IF Truthy(url)
    THEN [c |-> Returned(url), logged |-> <<>>, atob |-> 0]
    ELSE IF Truthy(token)
    THEN AfterTry(DecodeIdToken(token), logger)
    ELSE [c |-> Thrown("Error", RequiredMessage), logged |-> <<>>, atob |-> 0]

(***************************************************************************)
(* The environment of getInstanceUrl: the identity provider that issues    *)
(* the token (JSON.stringify, base64url without padding) and the caller's  *)
(* explicit instance URL.                                                  *)
(***************************************************************************)
MaxPathSegments == 1

\* "" and "/id", "/id/2", ... with n segments
Path(n) == Join([k \in 1..n |-> "/" \o (IF k = 1 THEN "id" ELSE NatToStr(k))])

Schemes == {"https://", "http://"}

Hosts == {"acme.my.salesforce.com", "login.salesforce.com", "login.salesforce.com.evil.io", ""}

Tails == {Path(n) : n \in 0..MaxPathSegments} \cup {"/"}

UrlLike == {sch \o h \o t : sch \in Schemes, h \in Hosts, t \in Tails}

\* What a claim of the payload may hold.
ClaimValues ==
    {Str(u) : u \in UrlLike} \cup {Str(""), Null, Num("0"), Num("7"), Bool(TRUE)}

\* The payload objects: profile and sub each absent or any claim value.
ClaimSets ==
    {Obj(<<>>)}
        \cup {Obj(<<[k |-> "profile", val |-> p]>>) : p \in ClaimValues}
        \cup {Obj(<<[k |-> "sub", val |-> u]>>) : u \in ClaimValues}
        \cup {Obj(<<[k |-> "sub", val |-> u], [k |-> "profile", val |-> p]>>) :
                 u \in ClaimValues, p \in ClaimValues}

\* s as a JSON string literal
Quote(s) ==
    "\"" \o Join([i \in 1..Len(s) |->
                     IF CharAt(s, i) \in {"\"", "\\"} THEN "\\" \o CharAt(s, i)
                     ELSE CharAt(s, i)]) \o "\""

\* JSON.stringify of an object of primitive values
Stringify(o) ==
    LET member(i) == (IF i > 1 THEN "," ELSE "") \o Quote(o.e[i].k) \o ":"
                         \o (CASE o.e[i].val.t = "string" -> Quote(o.e[i].val.v)
                               [] o.e[i].val.t = "null" -> "null"
                               [] o.e[i].val.t \in {"number", "boolean"} -> o.e[i].val.v)
    IN "{" \o Join([i \in 1..Len(o.e) |-> member(i)]) \o "}"

\* The base64url characters of up to three bytes of text from position i on.
B64Chunk(text, i) ==
    LET left == Len(text) - i + 1
        b1 == Ord(CharAt(text, i))
        b2 == Ord(CharAt(text, i + 1))
        b3 == Ord(CharAt(text, i + 2))
        n24 == b1 * 65536 + b2 * 256 + b3
        n18 == (b1 * 256 + b2) * 4
        n12 == b1 * 16
        ch(n) == CharAt(B64Alphabet, n + 1)
    IN CASE left >= 3 -> ch(n24 \div 262144) \o ch((n24 \div 4096) % 64)
                             \o ch((n24 \div 64) % 64) \o ch(n24 % 64)
         [] left = 2 -> ch(n18 \div 4096) \o ch((n18 \div 64) % 64) \o ch(n18 % 64)
         [] left = 1 -> ch(n12 \div 64) \o ch(n12 % 64)

\* base64url of text, unpadded, as a JWT segment
Base64UrlEncode(text) ==
    ReplaceAll(ReplaceAll(
        Join([g \in 1..((Len(text) + 2) \div 3) |-> B64Chunk(text, 3 * g - 2)]),
        "+", "-"), "/", "_")

JwtHeader == "eyJhbGciOiJSUzI1NiJ9"

JwtSignature == "c2ln"

\* Tokens given as they are: empty, one segment, two segments.
RawTokens == {"", "abc", JwtHeader, "eyJhbGciOiJSUzI1NiJ9.", "eyJhbGciOiJSUzI1NiJ9.e30"}

\* Payload segments that are no base64 (a character outside the alphabet, a
\* length of 4n + 1, padding in the middle).
NotBase64 == {"!!!!", "e", "e30=e30", "e30*", "eyJ9e"}

\* A payload segment that is base64 of the one byte 0xFF: no UTF-8.
NotUtf8 == {"_w", "_w=="}

\* Payload texts that are no JSON.
NotJson ==
    {"", "not json", "{\"profile\":", "{'sub':'https://acme.my.salesforce.com'}",
     "{\"profile\":\"https://acme.my.salesforce.com\",}", "{profile:1}"}

\* Payload texts that are JSON but no object.
JsonNotObject ==
    {"null", "7", "true", "[]", "\"https://acme.my.salesforce.com/id\"",
     "[\"https://acme.my.salesforce.com\"]"}

\* How a token comes to be: absent, given raw, or built around a payload.
Issued ==
    {[kind |-> "absent", text |-> "", claims |-> Obj(<<>>)]}
        \cup {[kind |-> "raw", text |-> t, claims |-> Obj(<<>>)] : t \in RawTokens}
        \cup {[kind |-> "segment", text |-> t, claims |-> Obj(<<>>)] :
                 t \in NotBase64 \cup NotUtf8}
        \cup {[kind |-> "text", text |-> t, claims |-> Obj(<<>>)] :
                 t \in NotJson \cup JsonNotObject}
        \cup {[kind |-> "claims", text |-> Stringify(c), claims |-> c] : c \in ClaimSets}

\* The idToken parameter for a way of issuing it.
TokenOf(i) ==
    CASE i.kind = "absent" -> Undefined
      [] i.kind = "raw" -> Str(i.text)
      [] i.kind = "segment" -> Str(JwtHeader \o "." \o i.text \o "." \o JwtSignature)
      [] i.kind \in {"text", "claims"} ->
             Str(JwtHeader \o "." \o Base64UrlEncode(i.text) \o "." \o JwtSignature)

\* The instanceUrl parameter: absent, empty, or given.
ExplicitUrls ==
    {Undefined, Str(""), Str("https://custom.my.salesforce.com"),
     Str("https://login.salesforce.com")}

\* No tool is being run.
HostIdle ==
    /\ toolId = ""
    /\ toolParams = Undefined
    /\ pc = "idle"
    /\ urlRet = NotCalled
    /\ headersRet = NotCalled
    /\ bodyRet = NotCalled
    /\ response = [ok |-> FALSE, text |-> ""]
    /\ transformRet = NotCalled
    /\ sent = <<>>
    /\ bodyRead = FALSE
    /\ bodyAgain = NotCalled

DispatcherIdle ==
    /\ params = Undefined
    /\ toolRet = NotCalled
    /\ cleanRet = NotCalled
    /\ handed = Undefined
    /\ cleanIsParams = FALSE
    /\ cleanAgain = NotCalled

InitResolver ==
    /\ issued \in Issued
    /\ idToken = TokenOf(issued)
    /\ instanceUrl \in ExplicitUrls
    /\ loggerName = ""
    /\ ret = NotCalled
    /\ log = <<>>
    /\ atobCalls = 0
    /\ DispatcherIdle
    /\ HostIdle

\* A tool's request.url calls its module's getInstanceUrl(params.idToken, params.instanceUrl).
CallGetInstanceUrl(logger) ==
    /\ ret.k = "none"
    /\ \E r \in {getInstanceUrl(idToken, instanceUrl, logger)} :
          /\ ret' = r.c
          /\ log' = log \o r.logged
          /\ atobCalls' = atobCalls + r.atob
    /\ loggerName' = logger
    /\ UNCHANGED <<idToken, instanceUrl, issued, params, toolRet, cleanRet, handed,
                   cleanIsParams, cleanAgain, toolVars>>

ReportsGetInstanceUrl == CallGetInstanceUrl("SalesforceReports")

DashboardsGetInstanceUrl == CallGetInstanceUrl("SalesforceDashboards")

NextResolver == ReportsGetInstanceUrl \/ DashboardsGetInstanceUrl

SpecResolver == InitResolver /\ [][NextResolver]_vars

(***************************************************************************)
(* SalesforceBlock: the operation dropdown, tools.access and tools.config. *)
(***************************************************************************)
\* subBlocks[operation].options: the ids, in the order of the dropdown
OperationOptions ==
    <<
     "get_accounts", "create_account", "update_account", "delete_account",
     "get_contacts", "create_contact", "update_contact", "delete_contact", "get_leads",
     "create_lead", "update_lead", "delete_lead", "get_opportunities",
     "create_opportunity", "update_opportunity", "delete_opportunity", "get_cases",
     "create_case", "update_case", "delete_case", "get_tasks", "create_task",
     "update_task", "delete_task", "list_reports", "get_report_metadata", "run_report",
     "run_report_async", "get_report_instance", "list_report_instances",
     "delete_report_instance", "run_report_with_filters", "create_report",
     "update_report", "delete_report", "list_dashboards", "get_dashboard",
     "refresh_dashboard", "clone_dashboard", "delete_dashboard",
     "get_dashboard_component"
    >>

\* subBlocks[operation].value
DefaultOperation == "get_accounts"

\* subBlocks[*].condition: the sub-block's id, the field it tests and the values
\* for which the sub-block is shown, in file order
SubBlockConditions ==
    <<
     [id |-> "fields", field |-> "operation", value |-> <<"get_accounts", "get_contacts",
              "get_leads", "get_opportunities", "get_cases", "get_tasks">>],
     [id |-> "limit", field |-> "operation", value |-> <<"get_accounts", "get_contacts",
              "get_leads", "get_opportunities", "get_cases", "get_tasks">>],
     [id |-> "orderBy", field |-> "operation", value |-> <<"get_accounts",
              "get_contacts", "get_leads", "get_opportunities", "get_cases",
              "get_tasks">>],
     [id |-> "accountId", field |-> "operation", value |-> <<"update_account",
              "delete_account", "create_contact", "update_contact", "create_case">>],
     [id |-> "name", field |-> "operation", value |-> <<"create_account",
              "update_account", "create_opportunity", "update_opportunity",
              "clone_dashboard">>],
     [id |-> "type", field |-> "operation", value |-> <<"create_account",
              "update_account">>],
     [id |-> "industry", field |-> "operation", value |-> <<"create_account",
              "update_account">>],
     [id |-> "phone", field |-> "operation", value |-> <<"create_account",
              "update_account", "create_contact", "update_contact", "create_lead",
              "update_lead">>],
     [id |-> "website", field |-> "operation", value |-> <<"create_account",
              "update_account">>],
     [id |-> "contactId", field |-> "operation", value |-> <<"get_contacts",
              "update_contact", "delete_contact", "create_case">>],
     [id |-> "lastName", field |-> "operation", value |-> <<"create_contact",
              "update_contact", "create_lead", "update_lead">>],
     [id |-> "firstName", field |-> "operation", value |-> <<"create_contact",
              "update_contact", "create_lead", "update_lead">>],
     [id |-> "email", field |-> "operation", value |-> <<"create_contact",
              "update_contact", "create_lead", "update_lead">>],
     [id |-> "title", field |-> "operation", value |-> <<"create_contact",
              "update_contact", "create_lead", "update_lead">>],
     [id |-> "leadId", field |-> "operation", value |-> <<"get_leads", "update_lead",
              "delete_lead">>],
     [id |-> "company", field |-> "operation", value |-> <<"create_lead",
              "update_lead">>],
     [id |-> "status", field |-> "operation", value |-> <<"create_lead", "update_lead",
              "create_case", "update_case", "create_task", "update_task">>],
     [id |-> "leadSource", field |-> "operation", value |-> <<"create_lead",
              "update_lead">>],
     [id |-> "opportunityId", field |-> "operation", value |-> <<"get_opportunities",
              "update_opportunity", "delete_opportunity">>],
     [id |-> "stageName", field |-> "operation", value |-> <<"create_opportunity",
              "update_opportunity">>],
     [id |-> "closeDate", field |-> "operation", value |-> <<"create_opportunity",
              "update_opportunity">>],
     [id |-> "amount", field |-> "operation", value |-> <<"create_opportunity",
              "update_opportunity">>],
     [id |-> "probability", field |-> "operation", value |-> <<"create_opportunity",
              "update_opportunity">>],
     [id |-> "caseId", field |-> "operation", value |-> <<"get_cases", "update_case",
              "delete_case">>],
     [id |-> "subject", field |-> "operation", value |-> <<"create_case", "update_case",
              "create_task", "update_task">>],
     [id |-> "priority", field |-> "operation", value |-> <<"create_case", "update_case",
              "create_task", "update_task">>],
     [id |-> "origin", field |-> "operation", value |-> <<"create_case">>],
     [id |-> "taskId", field |-> "operation", value |-> <<"get_tasks", "update_task",
              "delete_task">>],
     [id |-> "activityDate", field |-> "operation", value |-> <<"create_task",
              "update_task">>],
     [id |-> "whoId", field |-> "operation", value |-> <<"create_task">>],
     [id |-> "whatId", field |-> "operation", value |-> <<"create_task">>],
     [id |-> "reportId", field |-> "operation", value |-> <<"get_report_metadata",
              "run_report", "run_report_async", "get_report_instance",
              "list_report_instances", "delete_report_instance",
              "run_report_with_filters", "update_report", "delete_report">>],
     [id |-> "instanceId", field |-> "operation", value |-> <<"get_report_instance",
              "delete_report_instance">>],
     [id |-> "includeDetails", field |-> "operation", value |-> <<"run_report",
              "run_report_async">>],
     [id |-> "dashboardId", field |-> "operation", value |-> <<"get_dashboard",
              "refresh_dashboard", "clone_dashboard", "delete_dashboard",
              "get_dashboard_component">>],
     [id |-> "componentId", field |-> "operation", value |->
              <<"get_dashboard_component">>],
     [id |-> "folderId", field |-> "operation", value |-> <<"clone_dashboard">>],
     [id |-> "description", field |-> "operation", value |-> <<"create_account",
              "update_account", "create_contact", "update_contact", "create_lead",
              "update_lead", "create_opportunity", "update_opportunity", "create_case",
              "update_case", "create_task", "update_task">>],
     [id |-> "reportMetadata", field |-> "operation", value |->
              <<"run_report_with_filters", "create_report", "update_report">>]
    >>

\* An access list that leaves out the dashboard tools.
ToolAccessWithoutDashboards == [i \in 1..35 |-> "salesforce_" \o OperationOptions[i]]

\* tools.access
ToolAccess ==
    <<
     "salesforce_get_accounts", "salesforce_create_account",
     "salesforce_update_account", "salesforce_delete_account",
     "salesforce_get_contacts", "salesforce_create_contact",
     "salesforce_update_contact", "salesforce_delete_contact", "salesforce_get_leads",
     "salesforce_create_lead", "salesforce_update_lead", "salesforce_delete_lead",
     "salesforce_get_opportunities", "salesforce_create_opportunity",
     "salesforce_update_opportunity", "salesforce_delete_opportunity",
     "salesforce_get_cases", "salesforce_create_case", "salesforce_update_case",
     "salesforce_delete_case", "salesforce_get_tasks", "salesforce_create_task",
     "salesforce_update_task", "salesforce_delete_task", "salesforce_list_reports",
     "salesforce_get_report_metadata", "salesforce_run_report",
     "salesforce_run_report_async", "salesforce_get_report_instance",
     "salesforce_list_report_instances", "salesforce_delete_report_instance",
     "salesforce_run_report_with_filters", "salesforce_create_report",
     "salesforce_update_report", "salesforce_delete_report",
     "salesforce_list_dashboards", "salesforce_get_dashboard",
     "salesforce_refresh_dashboard", "salesforce_clone_dashboard",
     "salesforce_delete_dashboard", "salesforce_get_dashboard_component"
    >>

\* String(x), as a template literal converts a value
TemplateString(x) ==
    CASE x.t = "string" -> x.v
      [] x.t = "undefined" -> "undefined"
      [] x.t = "null" -> "null"
      [] x.t \in {"number", "boolean"} -> x.v
      [] x.t = "object" -> "[object Object]"

SeqToSet(q) == {q[i] : i \in 1..Len(q)}

\* A variant whose update_lead case returns the contact tool.
toolLeadAsContact(p) ==
    LET operation == GetProp(p, "operation")
    IN IF operation.t = "string" /\ operation.v = "update_lead"
       THEN Returned(Str("salesforce_update_contact"))
       ELSE IF operation.t = "string" /\ operation.v \in SeqToSet(OperationOptions)
       THEN Returned(Str("salesforce_" \o operation.v))
       ELSE Thrown("Error", "Unknown operation: " \o TemplateString(operation))

\* A variant whose default case falls back to the default operation's tool.
toolWithFallback(p) ==
    LET operation == GetProp(p, "operation")
    IN IF operation.t = "string" /\ operation.v \in SeqToSet(OperationOptions)
       THEN Returned(Str("salesforce_" \o operation.v))
       ELSE Returned(Str("salesforce_" \o DefaultOperation))

\* A variant whose run_report case returns the asynchronous tool.
toolRunReportAsAsync(p) ==
    LET operation == GetProp(p, "operation")
    IN IF operation.t = "string" /\ operation.v = "run_report"
       THEN Returned(Str("salesforce_run_report_async"))
       ELSE IF operation.t = "string" /\ operation.v \in SeqToSet(OperationOptions)
       THEN Returned(Str("salesforce_" \o operation.v))
       ELSE Thrown("Error", "Unknown operation: " \o TemplateString(operation))

\* tools.config.tool(params): switch (params.operation), a case per operation
tool(p) ==
    LET operation == GetProp(p, "operation")
    IN
    CASE operation.t = "string" /\ operation.v = "get_accounts" ->
                Returned(Str("salesforce_get_accounts"))
         [] operation.t = "string" /\ operation.v = "create_account" ->
                Returned(Str("salesforce_create_account"))
         [] operation.t = "string" /\ operation.v = "update_account" ->
                Returned(Str("salesforce_update_account"))
         [] operation.t = "string" /\ operation.v = "delete_account" ->
                Returned(Str("salesforce_delete_account"))
         [] operation.t = "string" /\ operation.v = "get_contacts" ->
                Returned(Str("salesforce_get_contacts"))
         [] operation.t = "string" /\ operation.v = "create_contact" ->
                Returned(Str("salesforce_create_contact"))
         [] operation.t = "string" /\ operation.v = "update_contact" ->
                Returned(Str("salesforce_update_contact"))
         [] operation.t = "string" /\ operation.v = "delete_contact" ->
                Returned(Str("salesforce_delete_contact"))
         [] operation.t = "string" /\ operation.v = "get_leads" ->
                Returned(Str("salesforce_get_leads"))
         [] operation.t = "string" /\ operation.v = "create_lead" ->
                Returned(Str("salesforce_create_lead"))
         [] operation.t = "string" /\ operation.v = "update_lead" ->
                Returned(Str("salesforce_update_lead"))
         [] operation.t = "string" /\ operation.v = "delete_lead" ->
                Returned(Str("salesforce_delete_lead"))
         [] operation.t = "string" /\ operation.v = "get_opportunities" ->
                Returned(Str("salesforce_get_opportunities"))
         [] operation.t = "string" /\ operation.v = "create_opportunity" ->
                Returned(Str("salesforce_create_opportunity"))
         [] operation.t = "string" /\ operation.v = "update_opportunity" ->
                Returned(Str("salesforce_update_opportunity"))
         [] operation.t = "string" /\ operation.v = "delete_opportunity" ->
                Returned(Str("salesforce_delete_opportunity"))
         [] operation.t = "string" /\ operation.v = "get_cases" ->
                Returned(Str("salesforce_get_cases"))
         [] operation.t = "string" /\ operation.v = "create_case" ->
                Returned(Str("salesforce_create_case"))
         [] operation.t = "string" /\ operation.v = "update_case" ->
                Returned(Str("salesforce_update_case"))
         [] operation.t = "string" /\ operation.v = "delete_case" ->
                Returned(Str("salesforce_delete_case"))
         [] operation.t = "string" /\ operation.v = "get_tasks" ->
                Returned(Str("salesforce_get_tasks"))
         [] operation.t = "string" /\ operation.v = "create_task" ->
                Returned(Str("salesforce_create_task"))
         [] operation.t = "string" /\ operation.v = "update_task" ->
                Returned(Str("salesforce_update_task"))
         [] operation.t = "string" /\ operation.v = "delete_task" ->
                Returned(Str("salesforce_delete_task"))
         [] operation.t = "string" /\ operation.v = "list_reports" ->
                Returned(Str("salesforce_list_reports"))
         [] operation.t = "string" /\ operation.v = "get_report_metadata" ->
                Returned(Str("salesforce_get_report_metadata"))
         [] operation.t = "string" /\ operation.v = "run_report" ->
                Returned(Str("salesforce_run_report"))
         [] operation.t = "string" /\ operation.v = "run_report_async" ->
                Returned(Str("salesforce_run_report_async"))
         [] operation.t = "string" /\ operation.v = "get_report_instance" ->
                Returned(Str("salesforce_get_report_instance"))
         [] operation.t = "string" /\ operation.v = "list_report_instances" ->
                Returned(Str("salesforce_list_report_instances"))
         [] operation.t = "string" /\ operation.v = "delete_report_instance" ->
                Returned(Str("salesforce_delete_report_instance"))
         [] operation.t = "string" /\ operation.v = "run_report_with_filters" ->
                Returned(Str("salesforce_run_report_with_filters"))
         [] operation.t = "string" /\ operation.v = "create_report" ->
                Returned(Str("salesforce_create_report"))
         [] operation.t = "string" /\ operation.v = "update_report" ->
                Returned(Str("salesforce_update_report"))
         [] operation.t = "string" /\ operation.v = "delete_report" ->
                Returned(Str("salesforce_delete_report"))
         [] operation.t = "string" /\ operation.v = "list_dashboards" ->
                Returned(Str("salesforce_list_dashboards"))
         [] operation.t = "string" /\ operation.v = "get_dashboard" ->
                Returned(Str("salesforce_get_dashboard"))
         [] operation.t = "string" /\ operation.v = "refresh_dashboard" ->
                Returned(Str("salesforce_refresh_dashboard"))
         [] operation.t = "string" /\ operation.v = "clone_dashboard" ->
                Returned(Str("salesforce_clone_dashboard"))
         [] operation.t = "string" /\ operation.v = "delete_dashboard" ->
                Returned(Str("salesforce_delete_dashboard"))
         [] operation.t = "string" /\ operation.v = "get_dashboard_component" ->
                Returned(Str("salesforce_get_dashboard_component"))
         [] OTHER -> Thrown("Error", "Unknown operation: " \o TemplateString(operation))

\* A variant that destructures credential only, leaving operation in rest.
RestWithOperation(p) ==
    SelectSeq(p.e, LAMBDA entry : entry.k # "credential")

\* const { credential, operation, ...rest } = params: the entries of rest
RestOf(p) ==
    SelectSeq(p.e, LAMBDA entry : entry.k \notin {"credential", "operation"})

RECURSIVE CleanEntriesTruthy(_, _, _)
\* A variant that keeps the truthy values only: if (value)
CleanEntriesTruthy(rest, i, cleanParams) ==
    IF i > Len(rest) THEN cleanParams
    ELSE IF Truthy(rest[i].val)
    THEN CleanEntriesTruthy(rest, i + 1, ObjSet(cleanParams, rest[i].k, rest[i].val))
    ELSE CleanEntriesTruthy(rest, i + 1, cleanParams)

RECURSIVE CleanEntriesNulling(_, _, _)
\* A variant that drops undefined and null and stores the empty string as null.
CleanEntriesNulling(rest, i, cleanParams) ==
    IF i > Len(rest) THEN cleanParams
    ELSE IF ~StrictEq(rest[i].val, Undefined) /\ ~StrictEq(rest[i].val, Null)
    THEN CleanEntriesNulling(rest, i + 1,
             ObjSet(cleanParams, rest[i].k,
                    IF StrictEq(rest[i].val, Str("")) THEN Null ELSE rest[i].val))
    ELSE CleanEntriesNulling(rest, i + 1, cleanParams)

RECURSIVE CleanEntries(_, _, _)
\* Object.entries(rest).forEach(...) from entry i on, writing into cleanParams
CleanEntries(rest, i, cleanParams) ==
    IF i > Len(rest) THEN cleanParams
    ELSE IF /\ ~StrictEq(rest[i].val, Undefined)
            /\ ~StrictEq(rest[i].val, Null)
            /\ ~StrictEq(rest[i].val, Str(""))
    THEN CleanEntries(rest, i + 1, ObjSet(cleanParams, rest[i].k, rest[i].val))
    ELSE CleanEntries(rest, i + 1, cleanParams)

\* A variant that starts from {} and sets credential after the other fields.
cleanParamsCredentialLast(p) ==
    Returned(ObjSet(CleanEntries(RestOf(p), 1, Obj(<<>>)),
                    "credential", GetProp(p, "credential")))

\* A variant that filters credential like every other field.
cleanParamsAllFiltered(p) ==
    Returned(CleanEntries(SelectSeq(p.e, LAMBDA entry : entry.k # "operation"), 1,
                          Obj(<<>>)))

\* tools.config.params(params)
cleanParamsOf(p) ==
    LET credential == GetProp(p, "credential")
    IN Returned(CleanEntries(RestOf(p), 1, Obj(<<[k |-> "credential", val |-> credential]>>)))

\* A variant of params that strips the fields from the bag it was given
\* (delete params.operation, delete of every filtered field) and returns that bag.
paramsCallInPlace(p) ==
    [c |-> Returned(CleanEntries(RestOf(p), 1,
                                 Obj(<<[k |-> "credential", val |-> GetProp(p, "credential")]>>))),
     bag |-> CleanEntries(RestOf(p), 1,
                          Obj(<<[k |-> "credential", val |-> GetProp(p, "credential")]>>)),
     same |-> TRUE]

\* A call of tools.config.params: its completion, the bag it was given as the
\* call leaves it (the writes go to cleanParams, an object the call creates),
\* and whether the object returned is the one given.
paramsCall(p) == [c |-> cleanParamsOf(p), bag |-> p, same |-> FALSE]

\* A call of tools.config.tool: its completion and the bag it was given as the
\* call leaves it (the switch only reads params.operation).
toolCall(p) == [c |-> tool(p), bag |-> p]

(***************************************************************************)
(* The parameter bags the host hands to tools.config.                      *)
(***************************************************************************)
\* The largest number of fields in a bag whose fields come in any order.
MaxParams == 4

\* Operation values that are no dropdown option id.
UnknownOperations ==
    {Undefined, Null, Str(""), Str("bogus"), Str("Get_Accounts"), Str("UPDATE_LEAD"),
     Str("salesforce_get_accounts"), Str("get_accounts "), Num("0"), Bool(TRUE)}

FieldKeys == {"credential", "operation", "accountId", "limit"}

\* The values a field of the bag takes.
FieldValues(key) ==
    CASE key = "credential" -> {Undefined, Null, Str(""), Str("c1")}
      [] key = "operation" -> {Str("get_accounts"), Str("")}
      [] OTHER -> {Undefined, Null, Str(""), Str(" "), Num("0"), Bool(FALSE), Str("50")}

\* The orders in which at most MaxParams fields with distinct keys come.
KeyOrders ==
    {q \in UNION {[1..n -> FieldKeys] : n \in 0..Min({MaxParams, Cardinality(FieldKeys)})} :
        \A i, j \in 1..Len(q) : q[i] = q[j] => i = j}

RECURSIVE FieldSeqs(_, _)
\* The entry sequences whose keys are the first n of the key order q.
FieldSeqs(q, n) ==
    IF n = 0 THEN {<<>>}
    ELSE {Append(r, [k |-> q[n], val |-> val]) :
             r \in FieldSeqs(q, n - 1), val \in FieldValues(q[n])}

\* Bags as the UI assembles them for each operation: credential, operation, record id.
OperationBags ==
    {Obj(c \o o \o a) :
        c \in {<<>>, <<[k |-> "credential", val |-> Str("c1")]>>},
        o \in {<<>>} \cup {<<[k |-> "operation", val |-> v]>> :
                   v \in {Str(id) : id \in SeqToSet(OperationOptions)}
                             \cup UnknownOperations},
        a \in {<<>>, <<[k |-> "accountId", val |-> Str("001")]>>}}

\* Bags whose fields come in any order with any of the filtered and kept values.
FieldBags == {Obj(e) : e \in UNION {FieldSeqs(q, Len(q)) : q \in KeyOrders}}

ParameterBags == OperationBags \cup FieldBags

ResolverIdle ==
    /\ issued = [kind |-> "absent", text |-> "", claims |-> Obj(<<>>)]
    /\ idToken = Undefined
    /\ instanceUrl = Undefined
    /\ loggerName = ""
    /\ ret = NotCalled
    /\ log = <<>>
    /\ atobCalls = 0

InitBlock ==
    /\ params \in ParameterBags
    /\ handed = params
    /\ toolRet = NotCalled
    /\ cleanRet = NotCalled
    /\ cleanIsParams = FALSE
    /\ cleanAgain = NotCalled
    /\ ResolverIdle
    /\ HostIdle

\* The host asks the block which tool serves the bag.
ConfigTool ==
    /\ toolRet.k = "none"
    /\ \E r \in {toolCall(params)} :
          /\ toolRet' = r.c
          /\ params' = r.bag
    /\ UNCHANGED <<idToken, instanceUrl, issued, loggerName, ret, log, atobCalls,
                   cleanRet, handed, cleanIsParams, cleanAgain, toolVars>>

\* The host asks the block for the parameters to hand to the tool.
ConfigParams ==
    /\ cleanRet.k = "none"
    /\ \E r \in {paramsCall(params)} :
          /\ cleanRet' = r.c
          /\ params' = r.bag
          /\ cleanIsParams' = r.same
    /\ UNCHANGED <<idToken, instanceUrl, issued, loggerName, ret, log, atobCalls,
                   toolRet, handed, cleanAgain, toolVars>>

\* The host hands the bag that params returned to params once more.
ConfigParamsAgain ==
    /\ cleanRet.k = "return"
    /\ cleanAgain.k = "none"
    /\ \E r \in {paramsCall(cleanRet.val)} :
          /\ cleanAgain' = r.c
          /\ cleanRet' = [cleanRet EXCEPT !.val = r.bag]
    /\ UNCHANGED <<idToken, instanceUrl, issued, loggerName, ret, log, atobCalls,
                   params, toolRet, handed, cleanIsParams, toolVars>>

NextBlock == ConfigTool \/ ConfigParams \/ ConfigParamsAgain

SpecBlock == InitBlock /\ [][NextBlock]_vars

(***************************************************************************)
(* The report and dashboard tool descriptors (reports.ts, dashboards.ts):  *)
(* request.url, request.headers, request.body and transformResponse.       *)
(***************************************************************************)
\* The ids of the descriptors of reports.ts, in file order
ReportToolIds ==
    <<"salesforce_list_reports", "salesforce_get_report_metadata", "salesforce_run_report",
      "salesforce_run_report_async", "salesforce_get_report_instance",
      "salesforce_list_report_instances", "salesforce_delete_report_instance",
      "salesforce_run_report_with_filters", "salesforce_create_report",
      "salesforce_update_report", "salesforce_delete_report">>

\* The ids of the descriptors of dashboards.ts, in file order
DashboardToolIds ==
    <<"salesforce_list_dashboards", "salesforce_get_dashboard",
      "salesforce_refresh_dashboard", "salesforce_clone_dashboard",
      "salesforce_delete_dashboard", "salesforce_get_dashboard_component">>

DescriptorIds == ReportToolIds \o DashboardToolIds

\* The logger of the module that defines the descriptor
ToolLogger(id) ==
    IF id \in SeqToSet(ReportToolIds) THEN "SalesforceReports" ELSE "SalesforceDashboards"

\* ${params.k} in a template literal
Param(p, k) == TemplateString(GetProp(p, k))

\* A variant that compares the parameter as printed.
includeDetailsLoose(p) ==
    IF TemplateString(GetProp(p, "includeDetails")) = "false" THEN "false" ELSE "true"

\* const includeDetails = params.includeDetails !== 'false', as the template prints it
includeDetails(p) ==
    IF StrictEq(GetProp(p, "includeDetails"), Str("false")) THEN "false" ELSE "true"

\* A path that leaves out the API version and the analytics service.
UrlPathUnversioned(id, p) ==
    IF id \in SeqToSet(ReportToolIds)
    THEN "/reports/" \o Param(p, "reportId")
    ELSE "/dashboards/" \o Param(p, "dashboardId")

\* What request.url puts after ${instanceUrl}
UrlPath(id, p) ==
    CASE id = "salesforce_list_reports" -> "/services/data/v59.0/analytics/reports"
      [] id = "salesforce_get_report_metadata" ->
             "/services/data/v59.0/analytics/reports/" \o Param(p, "reportId") \o "/describe"
      [] id = "salesforce_run_report" ->
             "/services/data/v59.0/analytics/reports/" \o Param(p, "reportId")
                 \o "?includeDetails=" \o includeDetails(p)
      [] id = "salesforce_run_report_async" ->
             "/services/data/v59.0/analytics/reports/" \o Param(p, "reportId")
                 \o "/instances?includeDetails=" \o includeDetails(p)
      [] id = "salesforce_get_report_instance" ->
             "/services/data/v59.0/analytics/reports/" \o Param(p, "reportId")
                 \o "/instances/" \o Param(p, "instanceId")
      [] id = "salesforce_list_report_instances" ->
             "/services/data/v59.0/analytics/reports/" \o Param(p, "reportId") \o "/instances"
      [] id = "salesforce_delete_report_instance" ->
             "/services/data/v59.0/analytics/reports/" \o Param(p, "reportId")
                 \o "/instances/" \o Param(p, "instanceId")
      [] id = "salesforce_run_report_with_filters" ->
             "/services/data/v59.0/analytics/reports/" \o Param(p, "reportId")
      [] id = "salesforce_create_report" -> "/services/data/v59.0/analytics/reports"
      [] id = "salesforce_update_report" ->
             "/services/data/v59.0/analytics/reports/" \o Param(p, "reportId")
      [] id = "salesforce_delete_report" ->
             "/services/data/v59.0/analytics/reports/" \o Param(p, "reportId")
      [] id = "salesforce_list_dashboards" -> "/services/data/v59.0/analytics/dashboards"
      [] id = "salesforce_get_dashboard" ->
             "/services/data/v59.0/analytics/dashboards/" \o Param(p, "dashboardId")
                 \o "/describe"
      [] id = "salesforce_refresh_dashboard" ->
             "/services/data/v59.0/analytics/dashboards/" \o Param(p, "dashboardId")
      [] id = "salesforce_clone_dashboard" -> "/services/data/v59.0/analytics/dashboards"
      [] id = "salesforce_delete_dashboard" ->
             "/services/data/v59.0/analytics/dashboards/" \o Param(p, "dashboardId")
      [] id = "salesforce_get_dashboard_component" ->
             "/services/data/v59.0/analytics/dashboards/" \o Param(p, "dashboardId")
                 \o "/components/" \o Param(p, "componentId")

\* request.url once getInstanceUrl has completed with r: the template literal
\* when it returned, its exception otherwise.
UrlAfterResolve(id, p, r) ==
    [c |-> IF r.c.k = "return"
           THEN Returned(Str(TemplateString(r.c.val) \o UrlPath(id, p)))
           ELSE r.c,
     resolved |-> r.c, logged |-> r.logged, atob |-> r.atob]

\* request.url(params)
requestUrl(id, p) ==
    UrlAfterResolve(id, p,
        getInstanceUrl(GetProp(p, "idToken"), GetProp(p, "instanceUrl"), ToolLogger(id)))

\* The tools that issue DELETE
DeleteToolIds ==
    {"salesforce_delete_report_instance", "salesforce_delete_report",
     "salesforce_delete_dashboard"}

Field(k, val) == [k |-> k, val |-> val]

\* request.headers(params): the delete tools send no Content-Type
requestHeaders(id, p) ==
    Returned(Obj(
        <<Field("Authorization", Str("Bearer " \o Param(p, "accessToken")))>>
            \o IF id \in DeleteToolIds
               THEN <<>>
               ELSE <<Field("Content-Type", Str("application/json"))>>))

InvalidJsonMessage == "Invalid JSON in reportMetadata parameter"

\* The tools whose body is the parsed reportMetadata parameter
MetadataToolIds ==
    {"salesforce_run_report_with_filters", "salesforce_create_report",
     "salesforce_update_report"}

\* A body builder that hands the parameter on as it is when it does not parse.
BodyAfterParsePassThrough(id, p, parsed) ==
    IF ~parsed.ok
    THEN Returned(GetProp(p, "reportMetadata"))
    ELSE Returned(parsed.val)

\* A body builder that wraps whatever it parsed.
BodyAfterParseAlwaysWrap(id, p, parsed) ==
    IF ~parsed.ok
    THEN Thrown("Error", InvalidJsonMessage)
    ELSE IF id = "salesforce_run_report_with_filters"
    THEN Returned(parsed.val)
    ELSE IF parsed.val.t = "null"
    THEN Thrown("Error", InvalidJsonMessage)
    ELSE Returned(Obj(<<Field("reportMetadata", parsed.val)>>))

\* request.body of the three tools once JSON.parse(params.reportMetadata) has
\* completed: whatever is thrown inside the try block becomes the one error.
BodyAfterParse(id, p, parsed) ==
    IF ~parsed.ok
    THEN Thrown("Error", InvalidJsonMessage)
    ELSE IF id = "salesforce_run_report_with_filters"
    THEN Returned(parsed.val)
    ELSE IF parsed.val.t = "null"
    THEN Thrown("Error", InvalidJsonMessage)
    ELSE IF Truthy(GetProp(parsed.val, "reportMetadata"))
    THEN Returned(parsed.val)
    ELSE Returned(Obj(<<Field("reportMetadata", parsed.val)>>))

\* request.body(params); the tools that define no body complete with "none"
requestBody(id, p) ==
    CASE id \in MetadataToolIds ->
             BodyAfterParse(id, p, JsonParse(Param(p, "reportMetadata")))
      [] id = "salesforce_run_report_async" -> Returned(Obj(<<>>))
      [] id = "salesforce_clone_dashboard" ->
             Returned(Obj(
                 <<Field("name", GetProp(p, "name")),
                   Field("sourceId", GetProp(p, "dashboardId"))>>
                     \o IF Truthy(GetProp(p, "folderId"))
                        THEN <<Field("folderId", GetProp(p, "folderId"))>>
                        ELSE <<>>))
      [] OTHER -> NotCalled

\* request.method
Method(id) ==
    CASE id \in {"salesforce_run_report_async", "salesforce_run_report_with_filters",
                 "salesforce_create_report", "salesforce_clone_dashboard"} -> "POST"
      [] id = "salesforce_update_report" -> "PATCH"
      [] id \in DeleteToolIds -> "DELETE"
      [] OTHER -> "GET"

\* The string each transformResponse falls back to
FallbackMessage(id) ==
    CASE id = "salesforce_list_reports" -> "Failed to list reports"
      [] id = "salesforce_get_report_metadata" -> "Failed to get report metadata"
      [] id = "salesforce_run_report" -> "Failed to run report"
      [] id = "salesforce_run_report_async" -> "Failed to run report asynchronously"
      [] id = "salesforce_get_report_instance" -> "Failed to get report instance"
      [] id = "salesforce_list_report_instances" -> "Failed to list report instances"
      [] id = "salesforce_delete_report_instance" -> "Failed to delete report instance"
      [] id = "salesforce_run_report_with_filters" -> "Failed to run report with filters"
      [] id = "salesforce_create_report" -> "Failed to create report"
      [] id = "salesforce_update_report" -> "Failed to update report"
      [] id = "salesforce_delete_report" -> "Failed to delete report"
      [] id = "salesforce_list_dashboards" -> "Failed to list dashboards"
      [] id = "salesforce_get_dashboard" -> "Failed to get dashboard"
      [] id = "salesforce_refresh_dashboard" -> "Failed to refresh dashboard"
      [] id = "salesforce_clone_dashboard" -> "Failed to clone dashboard"
      [] id = "salesforce_delete_dashboard" -> "Failed to delete dashboard"
      [] id = "salesforce_get_dashboard_component" -> "Failed to get dashboard component"

\* A variant that answers a non-OK response with a success envelope.
ErrorOfSwallowed(data, fallback) ==
    Returned(Obj(<<[k |-> "success", val |-> Bool(TRUE)],
                   [k |-> "output", val |-> Obj(<<[k |-> "error", val |-> Str(fallback)]>>)]>>))

\* throw new Error(data[0]?.message || data.message || fallback): reading [0]
\* of null is a TypeError
ErrorOf(data, fallback) ==
    IF data.t \in {"null", "undefined"}
    THEN Thrown("TypeError",
                "Cannot read properties of " \o data.t \o " (reading '0')")
    ELSE LET first == GetProp(data, "0")
             firstMessage == IF first.t \in {"null", "undefined"}
                             THEN Undefined
                             ELSE GetProp(first, "message")
             message == GetProp(data, "message")
         IN Thrown("Error",
                   TemplateString(IF Truthy(firstMessage) THEN firstMessage
                                  ELSE IF Truthy(message) THEN message
                                  ELSE Str(fallback)))

\* An operation name given as a bare string.
MetadataOfFlat(name) == Str(name)

\* metadata: { operation: '<name>' }
MetadataOf(name) == Obj(<<Field("operation", Str(name))>>)

\* The output object each transformResponse returns on an OK response
SuccessOutput(id, data, p) ==
    CASE id = "salesforce_list_reports" ->
             <<Field("reports", data), Field("metadata", MetadataOf("list_reports")),
               Field("success", Bool(TRUE))>>
      [] id = "salesforce_get_report_metadata" ->
             <<Field("reportId", GetProp(p, "reportId")), Field("metadata", data),
               Field("operation", Str("get_report_metadata")),
               Field("success", Bool(TRUE))>>
      [] id = "salesforce_run_report" ->
             <<Field("reportId", GetProp(p, "reportId")), Field("reportData", data),
               Field("metadata", MetadataOf("run_report")), Field("success", Bool(TRUE))>>
      [] id = "salesforce_run_report_async" ->
             <<Field("reportId", GetProp(p, "reportId")),
               Field("instanceId", GetProp(data, "id")),
               Field("status", GetProp(data, "status")),
               Field("requestDate", GetProp(data, "requestDate")),
               Field("metadata", MetadataOf("run_report_async")),
               Field("success", Bool(TRUE))>>
      [] id = "salesforce_get_report_instance" ->
             <<Field("reportId", GetProp(p, "reportId")),
               Field("instanceId", GetProp(p, "instanceId")), Field("reportData", data),
               Field("metadata", MetadataOf("get_report_instance")),
               Field("success", Bool(TRUE))>>
      [] id = "salesforce_list_report_instances" ->
             <<Field("reportId", GetProp(p, "reportId")), Field("instances", data),
               Field("metadata", MetadataOf("list_report_instances")),
               Field("success", Bool(TRUE))>>
      [] id = "salesforce_delete_report_instance" ->
             <<Field("reportId", GetProp(p, "reportId")),
               Field("instanceId", GetProp(p, "instanceId")),
               Field("deleted", Bool(TRUE)),
               Field("metadata", MetadataOf("delete_report_instance"))>>
      [] id = "salesforce_run_report_with_filters" ->
             <<Field("reportId", GetProp(p, "reportId")), Field("reportData", data),
               Field("metadata", MetadataOf("run_report_with_filters")),
               Field("success", Bool(TRUE))>>
      [] id = "salesforce_create_report" ->
             <<Field("reportId", GetProp(data, "id")), Field("report", data),
               Field("created", Bool(TRUE)),
               Field("metadata", MetadataOf("create_report")),
               Field("success", Bool(TRUE))>>
      [] id = "salesforce_update_report" ->
             <<Field("reportId", GetProp(p, "reportId")), Field("report", data),
               Field("updated", Bool(TRUE)),
               Field("metadata", MetadataOf("update_report")),
               Field("success", Bool(TRUE))>>
      [] id = "salesforce_delete_report" ->
             <<Field("reportId", GetProp(p, "reportId")), Field("deleted", Bool(TRUE)),
               Field("metadata", MetadataOf("delete_report"))>>
      [] id = "salesforce_list_dashboards" ->
             <<Field("dashboards", data),
               Field("metadata", MetadataOf("list_dashboards")),
               Field("success", Bool(TRUE))>>
      [] id = "salesforce_get_dashboard" ->
             <<Field("dashboardId", GetProp(p, "dashboardId")), Field("dashboard", data),
               Field("metadata", MetadataOf("get_dashboard")),
               Field("success", Bool(TRUE))>>
      [] id = "salesforce_refresh_dashboard" ->
             <<Field("dashboardId", GetProp(p, "dashboardId")),
               Field("dashboardData", data),
               Field("metadata", MetadataOf("refresh_dashboard")),
               Field("success", Bool(TRUE))>>
      [] id = "salesforce_clone_dashboard" ->
             <<Field("sourceDashboardId", GetProp(p, "dashboardId")),
               Field("newDashboardId", GetProp(data, "id")),
               Field("name", GetProp(p, "name")), Field("dashboard", data),
               Field("metadata", MetadataOf("clone_dashboard")),
               Field("success", Bool(TRUE))>>
      [] id = "salesforce_delete_dashboard" ->
             <<Field("dashboardId", GetProp(p, "dashboardId")),
               Field("deleted", Bool(TRUE)),
               Field("metadata", MetadataOf("delete_dashboard"))>>
      [] id = "salesforce_get_dashboard_component" ->
             <<Field("dashboardId", GetProp(p, "dashboardId")),
               Field("componentId", GetProp(p, "componentId")),
               Field("componentData", data),
               Field("metadata", MetadataOf("get_dashboard_component")),
               Field("success", Bool(TRUE))>>

\* The tools whose output reads a property of the response payload (data.id)
PayloadReaders ==
    {"salesforce_run_report_async", "salesforce_create_report",
     "salesforce_clone_dashboard"}

\* return { success: true, output: {...} }: reading a property of null is a TypeError
SuccessEnvelope(id, data, p) ==
    IF id \in PayloadReaders /\ data.t = "null"
    THEN Thrown("TypeError", "Cannot read properties of null (reading 'id')")
    ELSE Returned(Obj(<<Field("success", Bool(TRUE)),
                        Field("output", Obj(SuccessOutput(id, data, p)))>>))

\* A defensive parse that yields null for a body that does not parse.
DeleteErrorDataNull(parsed) == IF parsed.ok THEN parsed.val ELSE Null

\* await response.json().catch(() => ({}))
DeleteErrorData(parsed) == IF parsed.ok THEN parsed.val ELSE Obj(<<>>)

\* A variant in which every tool tests response.ok before it reads the body,
\* and reads it defensively.
AfterJsonOkFirst(id, resp, p, parsed) ==
    IF ~resp.ok
    THEN ErrorOf(DeleteErrorData(parsed), FallbackMessage(id))
    ELSE IF id \in DeleteToolIds
    THEN SuccessEnvelope(id, Undefined, p)
    ELSE IF ~parsed.ok
    THEN Thrown("SyntaxError", "response.json")
    ELSE SuccessEnvelope(id, parsed.val, p)

\* Whether transformResponse calls response.json(): the delete tools only
\* inside if (!response.ok), the others on their first line
ReadsBody(id, resp) == id \notin DeleteToolIds \/ ~resp.ok

\* transformResponse once the body text has gone through JSON.parse: the delete
\* tools read the body only when the response is not OK, the others always.
AfterJson(id, resp, p, parsed) ==
    IF id \in DeleteToolIds
    THEN IF ~resp.ok
         THEN ErrorOf(DeleteErrorData(parsed), FallbackMessage(id))
         ELSE SuccessEnvelope(id, Undefined, p)
    ELSE IF ~parsed.ok
    THEN Thrown("SyntaxError", "response.json")
    ELSE IF ~resp.ok
    THEN ErrorOf(parsed.val, FallbackMessage(id))
    ELSE SuccessEnvelope(id, parsed.val, p)

\* transformResponse(response, params)
transformResponse(id, resp, p) == AfterJson(id, resp, p, JsonParse(resp.text))

(***************************************************************************)
(* The host that runs one tool: it builds the request from the params it   *)
(* was handed (url, headers, body, in that order), sends it, and hands the *)
(* response to transformResponse. A function that throws ends the run.     *)
(***************************************************************************)
\* The tokens a run is given: none, a malformed one, one whose profile names the
\* organisation, one that names only the login host in sub.
ToolClaims ==
    {Obj(<<Field("profile", Str("https://acme.my.salesforce.com/id/00D/005"))>>),
     Obj(<<Field("sub", Str("https://login.salesforce.com/id/00D/005"))>>)}

ToolIssued ==
    {[kind |-> "absent", text |-> "", claims |-> Obj(<<>>)],
     [kind |-> "raw", text |-> "abc", claims |-> Obj(<<>>)]}
        \cup {[kind |-> "claims", text |-> Stringify(c), claims |-> c] : c \in ToolClaims}

AccessTokens == {Str("00Dxx!AQEAQ"), Str("00Dyy!ARMAQ")}

\* The reportMetadata parameter: empty, no JSON, a bare definition, a wrapped
\* definition, the JSON null.
MetadataValues ==
    {Str(""), Str("not json"), Str("{\"name\":\"Q3\"}"),
     Str("{\"reportMetadata\":{\"name\":\"Q3\"}}"), Str("null"),
     Str("{\"reportMetadata\":null}"), Str("[]"), Str("0")}

\* JSON.stringify(x) for a value that came out of JSON.parse
RECURSIVE StringifyValue(_)
StringifyValue(x) ==
    CASE x.t = "string" -> Quote(x.v)
      [] x.t = "null" -> "null"
      [] x.t \in {"number", "boolean"} -> x.v
      [] x.t = "array" ->
             "[" \o Join([i \in 1..Len(x.e) |->
                             (IF i > 1 THEN "," ELSE "") \o StringifyValue(x.e[i].val)])
                 \o "]"
      [] x.t = "object" ->
             "{" \o Join([i \in 1..Len(x.e) |->
                             (IF i > 1 THEN "," ELSE "") \o Quote(x.e[i].k) \o ":"
                                 \o StringifyValue(x.e[i].val)])
                 \o "}"

\* The includeDetails parameter: the two values the field asks for, another
\* spelling, the boolean, another word, and the empty string.
IncludeDetailsValues ==
    {Str("false"), Str("true"), Str("False"), Bool(FALSE), Str("no"), Str("")}

\* A field left out, or given one of vals
Optional(k, vals) == {<<>>} \cup {<<Field(k, v)>> : v \in vals}

\* A field left out when its value is undefined
Present(k, val) == IF val = Undefined THEN <<>> ELSE <<Field(k, val)>>

\* The user-supplied params of each tool
ToolFields(id) ==
    CASE id \in {"salesforce_list_reports", "salesforce_list_dashboards"} -> {<<>>}
      [] id \in {"salesforce_get_report_metadata", "salesforce_list_report_instances",
                 "salesforce_delete_report"} ->
             {<<Field("reportId", Str("00O5"))>>}
      [] id \in {"salesforce_run_report", "salesforce_run_report_async"} ->
             {<<Field("reportId", Str("00O5"))>> \o d :
                 d \in Optional("includeDetails", IncludeDetailsValues)}
      [] id \in {"salesforce_get_report_instance", "salesforce_delete_report_instance"} ->
             {<<Field("reportId", Str("00O5")), Field("instanceId", Str("0LG2"))>>}
      [] id \in {"salesforce_run_report_with_filters", "salesforce_update_report"} ->
             {<<Field("reportId", Str("00O5"))>> \o m :
                 m \in Optional("reportMetadata", MetadataValues)}
      [] id = "salesforce_create_report" -> Optional("reportMetadata", MetadataValues)
      [] id \in {"salesforce_get_dashboard", "salesforce_refresh_dashboard",
                 "salesforce_delete_dashboard"} ->
             {<<Field("dashboardId", Str("01Z3"))>>}
      [] id = "salesforce_clone_dashboard" ->
             {<<Field("dashboardId", Str("01Z3")), Field("name", Str("Copy"))>> \o f :
                 f \in Optional("folderId", {Str("00l7")})}
      [] id = "salesforce_get_dashboard_component" ->
             {<<Field("dashboardId", Str("01Z3")), Field("componentId", Str("0FL4"))>>}

\* The body texts the remote side answers with: Salesforce's error array, an
\* error object, an object that holds both, payloads, JSON that is no object,
\* and text that is no JSON.
BodyTexts ==
    {"[{\"message\":\"first\",\"errorCode\":\"E1\"}]",
     "[{\"message\":\"\"}]",
     "[{\"errorCode\":\"E1\"}]",
     "[null]",
     "[]",
     "{\"message\":\"second\"}",
     "{\"message\":\"\"}",
     "{\"0\":{\"message\":\"first\"},\"message\":\"second\"}",
     "{\"0\":{\"message\":\"\"},\"message\":\"second\"}",
     "{}",
     "{\"id\":\"0LGx\",\"status\":\"New\"}",
     "null",
     "7",
     "\"oops\"",
     "",
     "<html>Bad Gateway</html>"}

Responses == [ok : BOOLEAN, text : BodyTexts]

InitTools ==
    /\ issued \in ToolIssued
    /\ idToken = TokenOf(issued)
    /\ instanceUrl \in {Undefined, Str("https://custom.my.salesforce.com")}
    /\ loggerName = ""
    /\ ret = NotCalled
    /\ log = <<>>
    /\ atobCalls = 0
    /\ DispatcherIdle
    /\ toolId \in SeqToSet(DescriptorIds)
    /\ \E access \in AccessTokens, fields \in ToolFields(toolId) :
          toolParams = Obj(<<Field("accessToken", access)>>
                               \o Present("idToken", idToken)
                               \o Present("instanceUrl", instanceUrl)
                               \o fields)
    /\ pc = "url"
    /\ urlRet = NotCalled
    /\ headersRet = NotCalled
    /\ bodyRet = NotCalled
    /\ response = [ok |-> FALSE, text |-> ""]
    /\ transformRet = NotCalled
    /\ sent = <<>>
    /\ bodyRead = FALSE
    /\ bodyAgain = NotCalled

\* The host asks the descriptor for the request's URL.
RequestUrl ==
    /\ pc = "url"
    /\ \E r \in {requestUrl(toolId, toolParams)} :
          /\ urlRet' = r.c
          /\ ret' = r.resolved
          /\ log' = log \o r.logged
          /\ atobCalls' = atobCalls + r.atob
          /\ pc' = IF r.c.k = "return" THEN "headers" ELSE "failed"
    /\ loggerName' = ToolLogger(toolId)
    /\ UNCHANGED <<idToken, instanceUrl, issued, blockVars, toolId, toolParams,
                   headersRet, bodyRet, response, transformRet, sent, bodyRead, bodyAgain>>

\* The host asks the descriptor for the request's headers.
RequestHeaders ==
    /\ pc = "headers"
    /\ headersRet' = requestHeaders(toolId, toolParams)
    /\ pc' = "body"
    /\ UNCHANGED <<resolverVars, log, atobCalls, blockVars, toolId, toolParams,
                   urlRet, bodyRet, response, transformRet, sent, bodyRead, bodyAgain>>

\* The host asks the descriptor for the request's body.
RequestBody ==
    /\ pc = "body"
    /\ \E r \in {requestBody(toolId, toolParams)} :
          /\ bodyRet' = r
          /\ pc' = IF r.k = "throw" THEN "failed" ELSE "fetch"
    /\ UNCHANGED <<resolverVars, log, atobCalls, blockVars, toolId, toolParams,
                   urlRet, headersRet, response, transformRet, sent, bodyRead, bodyAgain>>

\* The request the host has built
BuiltRequest ==
    [url |-> urlRet.val, method |-> Method(toolId), headers |-> headersRet.val,
     body |-> bodyRet.val]

\* A host that sends the request once more after a failed transformResponse.
FetchWithRetry ==
    /\ \/ pc = "fetch"
       \/ pc = "done" /\ transformRet.k = "throw" /\ Len(sent) < 2
    /\ response' \in Responses
    /\ sent' = Append(sent, BuiltRequest)
    /\ pc' = "transform"
    /\ UNCHANGED <<resolverVars, log, atobCalls, blockVars, toolId, toolParams,
                   urlRet, headersRet, bodyRet, transformRet, bodyRead, bodyAgain>>

\* The body that was built is serialised and handed to request.body as the
\* reportMetadata parameter.
RequestBodyAgain ==
    /\ pc = "fetch"
    /\ toolId \in MetadataToolIds
    /\ bodyRet.k = "return"
    /\ bodyAgain.k = "none"
    /\ \E r \in {requestBody(toolId, ObjSet(toolParams, "reportMetadata",
                                              Str(StringifyValue(bodyRet.val))))} :
          bodyAgain' = r
    /\ UNCHANGED <<resolverVars, log, atobCalls, blockVars, toolId, toolParams, pc,
                   urlRet, headersRet, bodyRet, response, transformRet, sent, bodyRead>>

\* The request is sent and the remote side answers.
Fetch ==
    /\ pc = "fetch"
    /\ response' \in Responses
    /\ sent' = Append(sent, BuiltRequest)
    /\ pc' = "transform"
    /\ UNCHANGED <<resolverVars, log, atobCalls, blockVars, toolId, toolParams,
                   urlRet, headersRet, bodyRet, transformRet, bodyRead, bodyAgain>>

\* The host hands the response to the descriptor's transformResponse.
TransformResponse ==
    /\ pc = "transform"
    /\ \E r \in {transformResponse(toolId, response, toolParams)} :
          transformRet' = r
    /\ bodyRead' = ReadsBody(toolId, response)
    /\ pc' = "done"
    /\ UNCHANGED <<resolverVars, log, atobCalls, blockVars, toolId, toolParams,
                   urlRet, headersRet, bodyRet, response, sent, bodyAgain>>

NextTools ==
    \/ RequestUrl
    \/ RequestHeaders
    \/ RequestBody
    \/ RequestBodyAgain
    \/ Fetch
    \/ TransformResponse

SpecTools == InitTools /\ [][NextTools]_vars

(***************************************************************************)
(* One run of a tool invocation: the host asks the block which tool serves *)
(* the bag and for the parameters to hand on, runs that tool's descriptor  *)
(* once, and surfaces the first failure to its caller.                     *)
(***************************************************************************)
\* The operations whose descriptors are defined in reports.ts and
\* dashboards.ts, one that the switch does not know, and none at all
RunOperations ==
    {Str(Slice(DescriptorIds[i], Len("salesforce_") + 1, Len(DescriptorIds[i]))) :
         i \in 1..Len(DescriptorIds)}
        \cup {Str("export_report"), Undefined}

\* The user-supplied fields that go with an operation
RunFields(operation) ==
    IF operation.t = "string" /\ ("salesforce_" \o operation.v) \in SeqToSet(DescriptorIds)
    THEN ToolFields("salesforce_" \o operation.v)
    ELSE {<<>>}

\* The bags of a run: the operation, the credential, the connection values of
\* the credential and the operation's fields
RunBags(token, url) ==
    UNION {{Obj(Present("operation", operation)
                    \o <<Field("credential", Str("c1")), Field("accessToken", access)>>
                    \o Present("idToken", token)
                    \o Present("instanceUrl", url)
                    \o fields) :
                access \in AccessTokens, fields \in RunFields(operation)} :
           operation \in RunOperations}

InitRun ==
    /\ issued \in ToolIssued
    /\ idToken = TokenOf(issued)
    /\ instanceUrl \in {Undefined, Str("https://custom.my.salesforce.com")}
    /\ loggerName = ""
    /\ ret = NotCalled
    /\ log = <<>>
    /\ atobCalls = 0
    /\ params \in RunBags(idToken, instanceUrl)
    /\ handed = params
    /\ toolRet = NotCalled
    /\ cleanRet = NotCalled
    /\ cleanIsParams = FALSE
    /\ cleanAgain = NotCalled
    /\ HostIdle

\* Once the block has answered, the host runs the tool it named on the
\* parameters it returned; a failed dispatch ends the run.
Launch ==
    /\ pc = "idle"
    /\ toolRet.k # "none"
    /\ cleanRet.k # "none"
    /\ IF toolRet.k = "return" /\ cleanRet.k = "return"
       THEN /\ toolId' = toolRet.val.v
            /\ toolParams' = cleanRet.val
            /\ pc' = "url"
       ELSE /\ pc' = "failed"
            /\ UNCHANGED <<toolId, toolParams>>
    /\ UNCHANGED <<resolverVars, log, atobCalls, blockVars, urlRet, headersRet, bodyRet,
                   response, transformRet, sent, bodyRead, bodyAgain>>

NextRun ==
    \/ ConfigTool
    \/ ConfigParams
    \/ Launch
    \/ RequestUrl
    \/ RequestHeaders
    \/ RequestBody
    \/ Fetch
    \/ TransformResponse

\* The run is over once transformResponse has returned or thrown, or a stage
\* before the request failed.
RunEnded == pc \in {"done", "failed"}

\* The host goes on with the run as long as a step is left to take: weak
\* fairness of NextRun.  A step of NextRun is possible exactly while the run
\* has not ended, so WF_vars(NextRun), which is
\* []<>~(ENABLED <<NextRun>>_vars) \/ []<><<NextRun>>_vars, is written with
\* RunEnded in place of the enabledness test.
FairRun == []<>RunEnded \/ []<><<NextRun>>_vars

SpecRun == InitRun /\ [][NextRun]_vars /\ FairRun

(***************************************************************************)
(* Properties of getInstanceUrl, checked under SpecResolver.               *)
(***************************************************************************)
Called == ret.k # "none"

\* The explicit URL is absent or the empty string.
NoExplicitUrl == instanceUrl \in {Undefined, Str("")}

ConfigurationError ==
    [k |-> "throw", val |-> Undefined, name |-> "Error",
     message |-> "Salesforce instance URL is required but not provided"]

\* s begins with https://<host> for a host of at least one character
BeginsWithOrigin(s) ==
    /\ Len(s) >= 9
    /\ SubSeq(s, 1, 8) = "https://"
    /\ SubSeq(s, 9, 9) # "/"

\* Everything of s before the first "/" after the scheme.
OriginPrefix(s) ==
    LET n == CHOOSE m \in 9..Len(s) :
                 /\ \A i \in 9..m : SubSeq(s, i, i) # "/"
                 /\ m = Len(s) \/ SubSeq(s, m + 1, m + 1) = "/"
    IN SubSeq(s, 1, n)

\* The token was issued around a JSON object with these claims.
IssuedClaims == issued.kind = "claims"

ClaimIsOrigin(key) ==
    /\ HasOwn(issued.claims, key)
    /\ GetProp(issued.claims, key).t = "string"
    /\ BeginsWithOrigin(GetProp(issued.claims, key).v)

\* C1: for every non-empty explicit instance URL and every identity token
\* (absent, well-formed or malformed), getInstanceUrl returns the explicit URL
\* unchanged, hands nothing to the decoder and logs nothing.
ExplicitUrlWins ==
    (Called /\ instanceUrl.t = "string" /\ instanceUrl.v # "")
        => /\ ret = [k |-> "return", val |-> instanceUrl, name |-> "", message |-> ""]
           /\ atobCalls = 0
           /\ log = <<>>

\* An explicit URL was returned although the token is malformed.
ExplicitUrlWinsWitness ==
    /\ Called
    /\ instanceUrl = Str("https://custom.my.salesforce.com")
    /\ issued.kind = "text" /\ issued.text = "not json"
    /\ ret.k = "return"

\* C2: when the explicit URL is absent or empty and the payload is a JSON
\* object whose profile is a string beginning with https://<host>,
\* getInstanceUrl returns exactly the prefix https://<host>, whatever sub holds.
ProfileOriginReturned ==
    (Called /\ NoExplicitUrl /\ IssuedClaims /\ ClaimIsOrigin("profile"))
        => ret = [k |-> "return",
                  val |-> Str(OriginPrefix(GetProp(issued.claims, "profile").v)),
                  name |-> "", message |-> ""]

\* The origin of a profile with a path was returned while sub held another origin.
ProfileOriginReturnedWitness ==
    /\ Called /\ NoExplicitUrl /\ IssuedClaims
    /\ GetProp(issued.claims, "profile") = Str("https://acme.my.salesforce.com/id")
    /\ GetProp(issued.claims, "sub") = Str("https://login.salesforce.com/id")
    /\ ret.k = "return" /\ ret.val = Str("https://acme.my.salesforce.com")

\* C3: when the explicit URL is absent or empty and the payload has no profile
\* but a sub string beginning with https://<host> whose origin is not exactly
\* https://login.salesforce.com, getInstanceUrl returns exactly that origin.
SubOriginReturned ==
    (/\ Called /\ NoExplicitUrl /\ IssuedClaims
     /\ ~HasOwn(issued.claims, "profile")
     /\ ClaimIsOrigin("sub")
     /\ OriginPrefix(GetProp(issued.claims, "sub").v) # "https://login.salesforce.com")
        => ret = [k |-> "return",
                  val |-> Str(OriginPrefix(GetProp(issued.claims, "sub").v)),
                  name |-> "", message |-> ""]

\* A sub origin that merely begins with the login host was returned.
SubOriginReturnedWitness ==
    /\ Called /\ NoExplicitUrl /\ IssuedClaims
    /\ ~HasOwn(issued.claims, "profile")
    /\ GetProp(issued.claims, "sub") = Str("https://login.salesforce.com.evil.io/id")
    /\ ret.k = "return" /\ ret.val = Str("https://login.salesforce.com.evil.io")

\* C4: when the explicit URL is absent or empty and the payload has no profile
\* and a sub whose leading origin is exactly https://login.salesforce.com,
\* getInstanceUrl throws the configuration error and returns no URL.
LoginHostSubRejected ==
    (/\ Called /\ NoExplicitUrl /\ IssuedClaims
     /\ ~HasOwn(issued.claims, "profile")
     /\ ClaimIsOrigin("sub")
     /\ OriginPrefix(GetProp(issued.claims, "sub").v) = "https://login.salesforce.com")
        => ret = ConfigurationError

\* The call for a sub under the login host ended in the configuration error.
LoginHostSubRejectedWitness ==
    /\ Called /\ NoExplicitUrl /\ IssuedClaims
    /\ ~HasOwn(issued.claims, "profile")
    /\ GetProp(issued.claims, "sub") = Str("https://login.salesforce.com/id")
    /\ ret.k = "throw"

\* The token has fewer than two dot-separated segments.
FewerThanTwoSegments ==
    /\ issued.kind = "raw"
    /\ \A i \in 1..Len(issued.text) : SubSeq(issued.text, i, i) # "."

\* The payload segment is no base64.
PayloadNotBase64 == issued.kind = "segment" /\ issued.text \in NotBase64

\* The payload segment decodes to no JSON text: no UTF-8, empty, or no JSON.
PayloadNotJson ==
    \/ issued.kind = "segment" /\ issued.text \in NotUtf8
    \/ issued.kind = "text" /\ issued.text \in NotJson
    \/ issued.kind = "raw" /\ issued.text = JwtHeader \o "."

MalformedToken == FewerThanTwoSegments \/ PayloadNotBase64 \/ PayloadNotJson

\* The call failed with the configuration error and logged one diagnostic.
FailedWithOneDiagnostic ==
    /\ ret = ConfigurationError
    /\ Len(log) = 1
    /\ log[1].level = "error"
    /\ log[1].message = "Failed to decode Salesforce idToken"
    /\ log[1].logger = loggerName

\* C5 as stated: for every malformed identity token with no explicit URL the
\* call fails with the configuration error and logs exactly one diagnostic.
\* The empty string is a token of one segment and is not decoded at all.
MalformedTokenLoggedOnce ==
    (Called /\ NoExplicitUrl /\ MalformedToken) => FailedWithOneDiagnostic

\* C5: for every non-empty malformed identity token (fewer than two
\* dot-separated segments, payload no base64, or payload no JSON) with no
\* explicit URL, getInstanceUrl fails with the configuration error, the decode
\* exception is not propagated, and exactly one diagnostic is logged.
NonEmptyMalformedTokenLoggedOnce ==
    (Called /\ NoExplicitUrl /\ MalformedToken /\ idToken # Str(""))
        => FailedWithOneDiagnostic

\* A one-segment token made the call fail with one diagnostic logged.
NonEmptyMalformedTokenWitness ==
    /\ Called /\ NoExplicitUrl
    /\ FewerThanTwoSegments /\ idToken = Str("abc")
    /\ ret = ConfigurationError
    /\ Len(log) = 1

(***************************************************************************)
(* Properties of tools.config, checked under SpecBlock.                    *)
(***************************************************************************)
ToolCalled == toolRet.k # "none"

ParamsCalled == cleanRet.k # "none"

DropdownIds == {OperationOptions[i] : i \in 1..Len(OperationOptions)}

OperationOf(bag) == GetProp(bag, "operation")

IsDropdownOperation(x) == x.t = "string" /\ x.v \in DropdownIds

\* C6: for every operation id offered by the dropdown (all 41),
\* tools.config.tool returns salesforce_<operation>, update_lead giving
\* salesforce_update_lead; the result is a function of the operation alone.
DropdownOperationDispatched ==
    /\ Cardinality(DropdownIds) = 41
    /\ "update_lead" \in DropdownIds
    /\ (ToolCalled /\ IsDropdownOperation(OperationOf(params)))
           => toolRet = [k |-> "return",
                         val |-> Str("salesforce_" \o OperationOf(params).v),
                         name |-> "", message |-> ""]
    /\ (ToolCalled /\ OperationOf(params) = Str("update_lead"))
           => toolRet.val = Str("salesforce_update_lead")

\* update_lead was dispatched for a bag that holds other fields too.
DropdownOperationDispatchedWitness ==
    /\ ToolCalled
    /\ OperationOf(params) = Str("update_lead")
    /\ HasOwn(params, "accountId") /\ HasOwn(params, "credential")
    /\ toolRet.k = "return"

\* C7: for every operation value that is no known operation id (undefined,
\* the empty string and ids differing only in case included),
\* tools.config.tool throws an unknown-operation error and returns no tool id.
UnknownOperationThrows ==
    (ToolCalled /\ ~IsDropdownOperation(OperationOf(params)))
        => /\ toolRet.k = "throw"
           /\ toolRet.name = "Error"
           /\ Len(toolRet.message) >= 19
           /\ SubSeq(toolRet.message, 1, 19) = "Unknown operation: "

\* An id that differs from a known one only in case was rejected.
UnknownOperationThrowsWitness ==
    /\ ToolCalled
    /\ OperationOf(params) = Str("Get_Accounts")
    /\ toolRet.k = "throw"
    /\ toolRet.message = "Unknown operation: Get_Accounts"

\* C8: for every parameter bag, the output of tools.config.params has the key
\* credential with exactly the input's credential value, also when that value
\* is undefined, null, the empty string, or the key is missing.
CredentialAlwaysKept ==
    ParamsCalled
        => /\ cleanRet.k = "return"
           /\ HasOwn(cleanRet.val, "credential")
           /\ GetProp(cleanRet.val, "credential") = GetProp(params, "credential")

\* A bag with an empty-string credential kept it, while an empty field went.
CredentialAlwaysKeptWitness ==
    /\ ParamsCalled
    /\ HasOwn(params, "credential") /\ GetProp(params, "credential") = Str("")
    /\ HasOwn(params, "accountId") /\ GetProp(params, "accountId") = Str("")
    /\ HasOwn(cleanRet.val, "credential")
    /\ ~HasOwn(cleanRet.val, "accountId")

\* C9: for every parameter bag, the output of tools.config.params never has
\* the key operation, whatever its input value.
OperationDropped == ParamsCalled => ~HasOwn(cleanRet.val, "operation")

\* A bag with a non-empty operation was cleaned.
OperationDroppedWitness ==
    /\ ParamsCalled
    /\ OperationOf(params) = Str("get_accounts")
    /\ HasOwn(params, "limit")
    /\ cleanRet.k = "return" /\ HasOwn(cleanRet.val, "limit")

Filtered == {Undefined, Null, Str("")}

\* C10: every input key other than credential and operation is kept with an
\* identical value if and only if its value is not undefined, null or the
\* empty string; so the output holds no such value under a non-credential key,
\* 0, false and whitespace-only strings stay unchanged, and among those keys
\* the output has none that the input lacks.
OtherFieldsFiltered ==
    ParamsCalled
        => /\ \A i \in 1..Len(params.e) :
                  params.e[i].k \notin {"credential", "operation"}
                      => /\ HasOwn(cleanRet.val, params.e[i].k)
                                <=> params.e[i].val \notin Filtered
                         /\ HasOwn(cleanRet.val, params.e[i].k)
                                => GetProp(cleanRet.val, params.e[i].k) = params.e[i].val
           /\ \A j \in 1..Len(cleanRet.val.e) :
                  cleanRet.val.e[j].k # "credential"
                      => /\ cleanRet.val.e[j].val \notin Filtered
                         /\ HasOwn(params, cleanRet.val.e[j].k)

\* The bag of the example, with 0 for the limit: the empty accountId went, 0 stayed.
OtherFieldsFilteredWitness ==
    /\ ParamsCalled
    /\ params = Obj(<<[k |-> "credential", val |-> Str("c1")],
                      [k |-> "operation", val |-> Str("get_accounts")],
                      [k |-> "accountId", val |-> Str("")],
                      [k |-> "limit", val |-> Num("0")]>>)
    /\ cleanRet.val = Obj(<<[k |-> "credential", val |-> Str("c1")],
                            [k |-> "limit", val |-> Num("0")]>>)

\* The keys of the bag's entries other than credential and operation whose
\* value is kept, in the order of the bag.
RetainedKeys(bag) ==
    LET kept == SelectSeq(bag.e, LAMBDA entry :
                    /\ entry.k \notin {"credential", "operation"}
                    /\ entry.val \notin Filtered)
    IN [i \in 1..Len(kept) |-> kept[i].k]

\* C11: in the output of tools.config.params, credential is the first key and
\* every other retained key comes in the same relative order as in the input
\* bag, wherever credential and operation stood in the input.
CredentialFirstOrderKept ==
    ParamsCalled
        => [i \in 1..Len(cleanRet.val.e) |-> cleanRet.val.e[i].k]
               = <<"credential">> \o RetainedKeys(params)

\* A bag with credential last and operation between two kept fields was cleaned.
CredentialFirstOrderKeptWitness ==
    /\ ParamsCalled
    /\ [i \in 1..Len(params.e) |-> params.e[i].k]
           = <<"limit", "operation", "accountId", "credential">>
    /\ [i \in 1..Len(cleanRet.val.e) |-> cleanRet.val.e[i].k]
           = <<"credential", "limit", "accountId">>

\* C12: tools.config.params is idempotent: for every parameter bag x, also one
\* without a credential key, params(params(x)) has the same keys in the same
\* order with the same values as params(x).
ParamsIdempotent ==
    cleanAgain.k # "none"
        => /\ cleanAgain.k = "return"
           /\ cleanAgain.val = cleanRet.val

\* params was applied twice to a bag without credential that lost a field.
ParamsIdempotentWitness ==
    /\ cleanAgain.k = "return"
    /\ ~HasOwn(handed, "credential")
    /\ HasOwn(handed, "accountId") /\ GetProp(handed, "accountId") = Str("")
    /\ HasOwn(handed, "limit") /\ HasOwn(cleanAgain.val, "limit")
    /\ HasOwn(handed, "operation")

\* C13: tools.config.tool and tools.config.params have no side effects: after
\* either call the input bag has the same keys and values as before, and the
\* bag that params returns is a new one, not the input.
ConfigCallsLeaveBag ==
    /\ (ToolCalled \/ ParamsCalled) => params = handed
    /\ ParamsCalled => ~cleanIsParams

\* Both were called on a bag with an operation and a field that params drops.
ConfigCallsLeaveBagWitness ==
    /\ ToolCalled /\ ParamsCalled
    /\ HasOwn(handed, "operation")
    /\ HasOwn(handed, "accountId") /\ GetProp(handed, "accountId") = Null
    /\ ~HasOwn(cleanRet.val, "accountId")
    /\ HasOwn(params, "accountId") /\ HasOwn(params, "operation")

(***************************************************************************)
(* Claims about the report and dashboard tools.                            *)
(***************************************************************************)
Transformed == pc = "done"

\* The response body as JSON, when it is JSON
ParsedBody == JsonParse(response.text)

NonEmptyString(x) == x.t = "string" /\ x.v # ""

\* body[0].message where body has an element or member 0 that has members
FirstMessage(body) ==
    IF body.t \in {"object", "array"} /\ HasOwn(body, "0")
           /\ GetProp(body, "0").t \in {"object", "array"}
    THEN GetProp(GetProp(body, "0"), "message")
    ELSE Undefined

\* body.message where body has members
BodyMessage(body) ==
    IF body.t \in {"object", "array"} THEN GetProp(body, "message") ELSE Undefined

\* The message in the order of priority: body[0].message, body.message, fallback
MessageByPriority(body, fallback) ==
    IF NonEmptyString(FirstMessage(body)) THEN FirstMessage(body).v
    ELSE IF NonEmptyString(BodyMessage(body)) THEN BodyMessage(body).v
    ELSE fallback

\* C14: for every report and dashboard tool, on a non-OK response whose body
\* parsed as JSON, transformResponse raises an error whose message is
\* body[0].message when that is present and non-empty, otherwise body.message
\* when that is present and non-empty, otherwise the tool's fallback string
\* ("Failed to ..."); body.message never wins over a non-empty body[0].message.
ErrorMessageByPriority ==
    (Transformed /\ ~response.ok /\ ParsedBody.ok)
        => /\ transformRet.k = "throw"
           /\ transformRet.message
                  = MessageByPriority(ParsedBody.val, FallbackMessage(toolId))
           /\ Slice(FallbackMessage(toolId), 1, 10) = "Failed to "

\* The same order of priority for every JSON body but null.
ErrorMessageByPriorityButNull ==
    (Transformed /\ ~response.ok /\ ParsedBody.ok /\ ParsedBody.val # Null)
        => /\ transformRet = Thrown("Error",
                  MessageByPriority(ParsedBody.val, FallbackMessage(toolId)))
           /\ Slice(FallbackMessage(toolId), 1, 10) = "Failed to "

\* A non-OK response carried both messages and the first one was raised.
ErrorMessageFirstWins ==
    /\ Transformed /\ ~response.ok
    /\ response.text = "{\"0\":{\"message\":\"first\"},\"message\":\"second\"}"
    /\ transformRet = Thrown("Error", "first")

\* A non-OK response carried the JSON body null and list_reports raised a
\* TypeError in place of its fallback message.
NullBodyRaisesTypeError ==
    /\ Transformed /\ ~response.ok
    /\ toolId = "salesforce_list_reports"
    /\ response.text = "null"
    /\ transformRet.k = "throw"
    /\ transformRet.name = "TypeError"
    /\ transformRet.message # FallbackMessage(toolId)

\* The operation name of a tool: its id without the salesforce_ prefix
OperationName(id) == Slice(id, Len("salesforce_") + 1, Len(id))

OperationMetadata(id) == Obj(<<Field("operation", Str(OperationName(id)))>>)

EnvelopeOutput == GetProp(transformRet.val, "output")

SuccessEnvelopeReturned ==
    /\ transformRet.k = "return"
    /\ GetProp(transformRet.val, "success") = Bool(TRUE)

\* transformResponse gets past reading the body of an OK response: the delete
\* tools do not read it, the others need it to be JSON, and the tools that take
\* fields out of the payload need it not to be null.
OkBodyReadable ==
    \/ toolId \in DeleteToolIds
    \/ /\ ParsedBody.ok
       /\ ~(toolId \in PayloadReaders /\ ParsedBody.val = Null)

\* C15 as stated: for every report and dashboard tool, get_report_metadata
\* included, on an OK response transformResponse returns an envelope with
\* success = true whose output holds metadata = {operation: <operation name>}.
OkEnvelopeHasOperationMetadata ==
    (Transformed /\ response.ok)
        => /\ SuccessEnvelopeReturned
           /\ GetProp(EnvelopeOutput, "metadata") = OperationMetadata(toolId)

\* C15 as the code has it: on an OK response whose body transformResponse can
\* read, every report and dashboard tool returns an envelope with success =
\* true; its output holds metadata = {operation: <operation name>} for every
\* tool but get_report_metadata, whose output holds the response payload under
\* metadata and the operation name under operation.
OkEnvelopeMetadata ==
    (Transformed /\ response.ok /\ OkBodyReadable)
        => /\ SuccessEnvelopeReturned
           /\ IF toolId = "salesforce_get_report_metadata"
              THEN /\ GetProp(EnvelopeOutput, "metadata") = ParsedBody.val
                   /\ GetProp(EnvelopeOutput, "operation") = Str(OperationName(toolId))
              ELSE GetProp(EnvelopeOutput, "metadata") = OperationMetadata(toolId)

\* run_report returned its envelope for an OK response with an object body.
OkEnvelopeMetadataWitness ==
    /\ Transformed /\ response.ok
    /\ toolId = "salesforce_run_report"
    /\ response.text = "{\"id\":\"0LGx\",\"status\":\"New\"}"
    /\ SuccessEnvelopeReturned
    /\ GetProp(EnvelopeOutput, "metadata") = Obj(<<Field("operation", Str("run_report"))>>)
    /\ GetProp(EnvelopeOutput, "reportData") = ParsedBody.val

\* C16: for delete_report, delete_report_instance and delete_dashboard, a
\* non-OK response whose body is no JSON is treated as an empty object: the
\* error raised carries the tool's fallback message, not a JSON parse error.
DeleteUnparseableFallsBack ==
    (/\ Transformed
     /\ toolId \in {"salesforce_delete_report", "salesforce_delete_report_instance",
                    "salesforce_delete_dashboard"}
     /\ ~response.ok
     /\ ~ParsedBody.ok)
        => /\ transformRet = Thrown("Error", FallbackMessage(toolId))
           /\ transformRet = AfterJson(toolId, response, toolParams,
                                       [ok |-> TRUE, val |-> Obj(<<>>)])

\* delete_report got a non-OK response with an HTML body and raised its fallback.
DeleteUnparseableFallsBackWitness ==
    /\ Transformed /\ ~response.ok
    /\ toolId = "salesforce_delete_report"
    /\ response.text = "<html>Bad Gateway</html>"
    /\ transformRet = Thrown("Error", "Failed to delete report")

AnalyticsBase == "/services/data/v59.0/analytics/"

\* The collection a tool's path starts with
ResourceOf(id) == IF id \in SeqToSet(ReportToolIds) THEN "reports" ELSE "dashboards"

BeginsWith(s, prefix) == Slice(s, 1, Len(prefix)) = prefix

\* C17: for every report and dashboard tool and all parameters for which the
\* instance URL resolves, the built URL is the resolved instance URL, then
\* /services/data/v59.0/analytics/, then the operation's path; and the headers
\* hold Authorization = "Bearer " followed by the accessToken parameter.
UrlAndAuthorizationBuilt ==
    /\ (urlRet.k # "none" /\ ret.k = "return")
           => /\ urlRet.k = "return"
              /\ urlRet.val.t = "string"
              /\ BeginsWith(urlRet.val.v, ret.val.v \o AnalyticsBase \o ResourceOf(toolId))
              /\ \A k \in {"reportId", "instanceId", "dashboardId", "componentId"} :
                     (HasOwn(toolParams, k)
                          /\ OperationName(toolId) \notin {"create_report", "clone_dashboard"})
                         => BeginsWith(urlRet.val.v,
                                ret.val.v \o AnalyticsBase \o ResourceOf(toolId) \o "/")
    /\ headersRet.k # "none"
           => /\ headersRet.k = "return"
              /\ GetProp(headersRet.val, "Authorization")
                     = Str("Bearer " \o GetProp(toolParams, "accessToken").v)

\* get_dashboard_component built its URL on the explicit instance URL and its
\* headers on the access token.
UrlAndAuthorizationBuiltWitness ==
    /\ toolId = "salesforce_get_dashboard_component"
    /\ instanceUrl = Str("https://custom.my.salesforce.com")
    /\ urlRet = Returned(Str("https://custom.my.salesforce.com/services/data/v59.0/analytics/dashboards/01Z3/components/0FL4"))
    /\ GetProp(toolParams, "accessToken") = Str("00Dxx!AQEAQ")
    /\ GetProp(headersRet.val, "Authorization") = Str("Bearer 00Dxx!AQEAQ")

\* The reportMetadata parameter is missing or is no JSON text
MetadataUnparseable ==
    \/ ~HasOwn(toolParams, "reportMetadata")
    \/ /\ GetProp(toolParams, "reportMetadata").t = "string"
       /\ ~JsonParse(GetProp(toolParams, "reportMetadata").v).ok

\* C18: for run_report_with_filters, create_report and update_report, when the
\* reportMetadata parameter is missing or is not parseable JSON, the body
\* builder fails with the error "Invalid JSON in reportMetadata parameter" and
\* produces no request body.
InvalidMetadataRejected ==
    (/\ pc \in {"fetch", "transform", "done", "failed"}
     /\ urlRet.k = "return"
     /\ toolId \in {"salesforce_run_report_with_filters", "salesforce_create_report",
                    "salesforce_update_report"}
     /\ MetadataUnparseable)
        => /\ bodyRet = Thrown("Error", "Invalid JSON in reportMetadata parameter")
           /\ pc = "failed"
           /\ response = [ok |-> FALSE, text |-> ""]

\* update_report was given text that is no JSON and its body builder failed.
InvalidMetadataRejectedWitness ==
    /\ toolId = "salesforce_update_report"
    /\ GetProp(toolParams, "reportMetadata") = Str("not json")
    /\ bodyRet.k = "throw"
    /\ bodyRet.message = "Invalid JSON in reportMetadata parameter"

\* The report and dashboard operations of the dropdown
AnalyticsOperations ==
    {"list_reports", "get_report_metadata", "run_report", "run_report_async",
     "get_report_instance", "list_report_instances", "delete_report_instance",
     "run_report_with_filters", "create_report", "update_report", "delete_report",
     "list_dashboards", "get_dashboard", "refresh_dashboard", "clone_dashboard",
     "delete_dashboard", "get_dashboard_component"}

\* What tools.config.tool answers for each operation of the dropdown alone
Dispatched ==
    [id \in DropdownIds |-> tool(Obj(<<[k |-> "operation", val |-> Str(id)]>>))]

\* The descriptors of reports.ts and dashboards.ts whose id is the given one
DescriptorsWithId(id) == {i \in 1..Len(DescriptorIds) : DescriptorIds[i] = id}

\* C19: each operation maps to exactly one tool descriptor: distinct operation
\* ids dispatch to distinct tool ids, and for each of the 17 report and
\* dashboard operations the dispatched tool id is the id of exactly one
\* descriptor of reports.ts or dashboards.ts (no two descriptors share an id).
OneDescriptorPerOperation ==
    /\ Cardinality(AnalyticsOperations) = 17
    /\ AnalyticsOperations \subseteq DropdownIds
    /\ (ToolCalled /\ IsDropdownOperation(OperationOf(params)))
           => /\ toolRet.k = "return"
              /\ \A other \in DropdownIds \ {OperationOf(params).v} :
                     Dispatched[other] # toolRet
              /\ OperationOf(params).v \in AnalyticsOperations
                     => Cardinality(DescriptorsWithId(toolRet.val.v)) = 1

\* run_report was dispatched to the one descriptor with the id salesforce_run_report.
OneDescriptorPerOperationWitness ==
    /\ ToolCalled
    /\ OperationOf(params) = Str("run_report")
    /\ toolRet = Returned(Str("salesforce_run_report"))
    /\ DescriptorsWithId("salesforce_run_report") = {3}
    /\ Dispatched["run_report_async"] = Returned(Str("salesforce_run_report_async"))

\* C20: the login host is excluded only on the sub path: when the explicit URL
\* is absent and the payload's profile begins with https://login.salesforce.com/,
\* getInstanceUrl returns https://login.salesforce.com and does not fail.
LoginHostProfileReturned ==
    (/\ Called /\ NoExplicitUrl /\ IssuedClaims
     /\ HasOwn(issued.claims, "profile")
     /\ GetProp(issued.claims, "profile").t = "string"
     /\ BeginsWith(GetProp(issued.claims, "profile").v, "https://login.salesforce.com/"))
        => /\ ret = Returned(Str("https://login.salesforce.com"))
           /\ log = <<>>

\* The login host was returned from profile while sub named an organisation.
LoginHostProfileReturnedWitness ==
    /\ Called /\ instanceUrl = Undefined /\ IssuedClaims
    /\ GetProp(issued.claims, "profile") = Str("https://login.salesforce.com/id")
    /\ GetProp(issued.claims, "sub") = Str("https://acme.my.salesforce.com/id")
    /\ ret.k = "return" /\ ret.val = Str("https://login.salesforce.com")

\* C22: for every report and dashboard tool, transformResponse returns a
\* success envelope only when response.ok is true; for every non-OK response
\* it raises an error and never returns an envelope with success = true.
SuccessOnlyWhenOk ==
    Transformed
        => /\ transformRet.k \in {"return", "throw"}
           /\ transformRet.k = "return" => response.ok
           /\ ~response.ok
                  => /\ transformRet.k = "throw"
                     /\ GetProp(transformRet.val, "success") # Bool(TRUE)

\* clone_dashboard got a non-OK response with a payload that would do for a
\* success, and raised its fallback.
SuccessOnlyWhenOkWitness ==
    /\ Transformed /\ ~response.ok
    /\ toolId = "salesforce_clone_dashboard"
    /\ response.text = "{\"id\":\"0LGx\",\"status\":\"New\"}"
    /\ transformRet = Thrown("Error", "Failed to clone dashboard")

\* C23: a truthy profile shadows sub: when the explicit URL is absent and the
\* payload's profile is a non-empty string that does not begin with
\* https://<host>, getInstanceUrl fails with the configuration error even if sub
\* holds a tenant origin; sub is consulted only when profile is absent or falsy.
ProfileShadowsSub ==
    (Called /\ NoExplicitUrl /\ IssuedClaims)
        => /\ (/\ GetProp(issued.claims, "profile").t = "string"
               /\ GetProp(issued.claims, "profile").v # ""
               /\ ~BeginsWithOrigin(GetProp(issued.claims, "profile").v))
                  => ret = ConfigurationError
           /\ (ret.k = "return" /\ Truthy(GetProp(issued.claims, "profile")))
                  => /\ ClaimIsOrigin("profile")
                     /\ ret.val = Str(OriginPrefix(GetProp(issued.claims, "profile").v))

\* The call failed on an http profile although sub held a tenant origin.
ProfileShadowsSubWitness ==
    /\ Called /\ instanceUrl = Undefined /\ IssuedClaims
    /\ GetProp(issued.claims, "profile") = Str("http://acme.my.salesforce.com/id")
    /\ GetProp(issued.claims, "sub") = Str("https://acme.my.salesforce.com/id")
    /\ ret = ConfigurationError
    /\ log = <<>>

\* The claim the code inspects: profile when it is truthy, sub otherwise
InspectedClaim ==
    IF Truthy(GetProp(issued.claims, "profile"))
    THEN GetProp(issued.claims, "profile")
    ELSE GetProp(issued.claims, "sub")

\* Decoding or inspecting the token raises an exception: the token has one
\* segment, its payload is no base64, no UTF-8 or no JSON, the payload is null,
\* the payload is a string (whose sub is a method), or the inspected claim is
\* truthy and no string.
DecodeException ==
    /\ Truthy(idToken)
    /\ \/ FewerThanTwoSegments
       \/ PayloadNotBase64
       \/ PayloadNotJson
       \/ issued.kind = "text" /\ issued.text = "null"
       \/ issued.kind = "text" /\ SubSeq(issued.text, 1, 1) = "\""
       \/ IssuedClaims /\ Truthy(InspectedClaim) /\ InspectedClaim.t # "string"

\* Neither profile nor sub is a string that yields a URL
NoUsableClaim ==
    /\ ~ClaimIsOrigin("profile")
    /\ ~(ClaimIsOrigin("sub")
             /\ OriginPrefix(GetProp(issued.claims, "sub").v) # "https://login.salesforce.com")

\* A diagnostic is logged exactly when an exception occurred, and never when a
\* URL is returned.
LoggedIffException ==
    /\ Called => (log # <<>> <=> (NoExplicitUrl /\ DecodeException))
    /\ Len(log) <= 1
    /\ ret.k = "return" => log = <<>>

\* C24 as stated: getInstanceUrl logs a diagnostic if and only if an exception
\* occurred while decoding or inspecting the token; every well-formed token
\* whose payload is a JSON object with neither a usable profile nor a usable
\* sub makes the call fail with the configuration error and no diagnostic; a
\* call that returns a URL never logs.
LoggedIffExceptionAnyClaims ==
    /\ LoggedIffException
    /\ (Called /\ NoExplicitUrl /\ IssuedClaims /\ NoUsableClaim)
           => (ret = ConfigurationError /\ log = <<>>)

\* C24 as the code has it: the same, for payload objects whose inspected claim
\* (profile when truthy, sub otherwise) is absent, falsy or a string; a truthy
\* claim that is no string raises a TypeError, which is logged.
LoggedIffExceptionStringClaims ==
    /\ LoggedIffException
    /\ (/\ Called /\ NoExplicitUrl /\ IssuedClaims /\ NoUsableClaim
        /\ ~(Truthy(InspectedClaim) /\ InspectedClaim.t # "string"))
           => (ret = ConfigurationError /\ log = <<>>)
    /\ (/\ Called /\ NoExplicitUrl /\ IssuedClaims
        /\ Truthy(InspectedClaim) /\ InspectedClaim.t # "string")
           => (ret = ConfigurationError /\ Len(log) = 1)

\* A payload whose only claim is the login host in sub made the call fail
\* without a diagnostic.
LoggedIffExceptionWitness ==
    /\ Called /\ instanceUrl = Undefined /\ IssuedClaims
    /\ ~HasOwn(issued.claims, "profile")
    /\ GetProp(issued.claims, "sub") = Str("https://login.salesforce.com/id")
    /\ ret = ConfigurationError
    /\ log = <<>>
    /\ atobCalls = 1

EndsWith(s, suffix) == Slice(s, Len(s) - Len(suffix) + 1, Len(s)) = suffix

\* C26: for run_report and run_report_async, the includeDetails query value of
\* the URL is false if and only if the includeDetails parameter is exactly the
\* string 'false'; for every other value (absent, 'true', 'False', boolean
\* false, any other string) it is true.
IncludeDetailsDefaultsTrue ==
    (/\ toolId \in {"salesforce_run_report", "salesforce_run_report_async"}
     /\ urlRet.k = "return")
        => /\ EndsWith(urlRet.val.v, "?includeDetails=false")
                  <=> GetProp(toolParams, "includeDetails") = Str("false")
           /\ EndsWith(urlRet.val.v, "?includeDetails=true")
                  <=> GetProp(toolParams, "includeDetails") # Str("false")

\* run_report_async was given the boolean false and asked for the details.
IncludeDetailsDefaultsTrueWitness ==
    /\ toolId = "salesforce_run_report_async"
    /\ GetProp(toolParams, "includeDetails") = Bool(FALSE)
    /\ urlRet.k = "return"
    /\ EndsWith(urlRet.val.v, "/reports/00O5/instances?includeDetails=true")

\* C27: every non-delete report or dashboard tool parses the response body
\* before it tests response.ok, so a body that is no JSON makes
\* transformResponse fail with the parse error on OK and non-OK responses alike
\* (never the fallback message, never success); every delete tool tests
\* response.ok first and on an OK response returns success with deleted = true
\* without reading the body.
ParseOrderByToolKind ==
    Transformed
        => /\ (toolId \notin DeleteToolIds /\ ~ParsedBody.ok)
                  => /\ bodyRead
                     /\ transformRet.k = "throw"
                     /\ transformRet.name = "SyntaxError"
                     /\ transformRet.message # FallbackMessage(toolId)
           /\ (toolId \in DeleteToolIds /\ response.ok)
                  => /\ ~bodyRead
                     /\ SuccessEnvelopeReturned
                     /\ GetProp(EnvelopeOutput, "deleted") = Bool(TRUE)

\* list_report_instances failed with the parse error on a non-OK response
\* whose body is HTML.
ParseOrderByToolKindWitness ==
    /\ Transformed /\ ~response.ok
    /\ toolId = "salesforce_list_report_instances"
    /\ response.text = "<html>Bad Gateway</html>"
    /\ bodyRead
    /\ transformRet.k = "throw" /\ transformRet.name = "SyntaxError"

\* The reportMetadata parameter as JSON.parse reads it
ParsedMetadata == JsonParse(TemplateString(GetProp(toolParams, "reportMetadata")))

WrappingTools == {"salesforce_create_report", "salesforce_update_report"}

\* The body of create_report and update_report has a top-level reportMetadata
\* key: the parsed JSON itself when it has a truthy reportMetadata member, the
\* parsed JSON wrapped otherwise; run_report_with_filters sends the parsed JSON.
BodyWrappedOnce ==
    /\ (toolId \in WrappingTools /\ bodyRet.k = "return")
           => /\ ParsedMetadata.ok
              /\ HasOwn(bodyRet.val, "reportMetadata")
              /\ bodyRet.val
                     = IF Truthy(GetProp(ParsedMetadata.val, "reportMetadata"))
                       THEN ParsedMetadata.val
                       ELSE Obj(<<Field("reportMetadata", ParsedMetadata.val)>>)
    /\ (toolId = "salesforce_run_report_with_filters" /\ bodyRet.k = "return")
           => /\ ParsedMetadata.ok
              /\ bodyRet.val = ParsedMetadata.val

\* C25 as stated: the body of create_report and update_report has a top-level
\* reportMetadata key, sent unchanged when the parsed JSON has it truthy and
\* wrapped otherwise; feeding the serialised body back in always yields the
\* same body; run_report_with_filters sends the parsed JSON as is.
WrappingAlwaysIdempotent ==
    /\ BodyWrappedOnce
    /\ (toolId \in WrappingTools /\ bodyAgain.k # "none") => bodyAgain = bodyRet

\* C25 as the code has it: the same, with the serialised body yielding the same
\* body when the parsed JSON is truthy; a falsy parsed value (0, false, the
\* empty string) is wrapped once more each time.
WrappingIdempotentForTruthy ==
    /\ BodyWrappedOnce
    /\ (toolId \in WrappingTools /\ bodyAgain.k # "none")
           => IF Truthy(ParsedMetadata.val)
              THEN bodyAgain = bodyRet
              ELSE bodyAgain = Returned(Obj(<<Field("reportMetadata", bodyRet.val)>>))

\* create_report wrapped a bare definition and built the same body from the
\* serialised one.
WrappingIdempotentWitness ==
    /\ toolId = "salesforce_create_report"
    /\ GetProp(toolParams, "reportMetadata") = Str("{\"name\":\"Q3\"}")
    /\ bodyRet.k = "return"
    /\ StringifyValue(bodyRet.val) = "{\"reportMetadata\":{\"name\":\"Q3\"}}"
    /\ bodyAgain = bodyRet

\* C28: the dispatch table, the operation dropdown and the tool access list
\* agree: the tool ids that tools.config.tool returns over all dropdown option
\* ids are the ids listed in tools.access (41 entries, no duplicates, none
\* unreachable), the default operation get_accounts is dispatchable, and every
\* operation id named in a sub-block's visibility condition is a dropdown id.
DispatchAccessDropdownAgree ==
    /\ \A id \in DropdownIds : Dispatched[id].k = "return"
    /\ {Dispatched[id].val.v : id \in DropdownIds} = SeqToSet(ToolAccess)
    /\ Len(ToolAccess) = 41
    /\ Cardinality(SeqToSet(ToolAccess)) = 41
    /\ DefaultOperation = "get_accounts"
    /\ DefaultOperation \in DropdownIds
    /\ Dispatched[DefaultOperation].val.v \in SeqToSet(ToolAccess)
    /\ \A i \in 1..Len(SubBlockConditions) :
           /\ SubBlockConditions[i].field = "operation"
           /\ SeqToSet(SubBlockConditions[i].value) \subseteq DropdownIds
    /\ (ToolCalled /\ toolRet.k = "return") => toolRet.val.v \in SeqToSet(ToolAccess)
    /\ (ToolCalled /\ IsDropdownOperation(OperationOf(params)))
           => toolRet = Dispatched[OperationOf(params).v]

\* The default operation was dispatched to a tool of the access list, and the
\* last sub-block is shown for three report operations of the dropdown.
DispatchAccessDropdownAgreeWitness ==
    /\ ToolCalled
    /\ OperationOf(params) = Str("get_accounts")
    /\ toolRet = Returned(Str("salesforce_get_accounts"))
    /\ ToolAccess[1] = "salesforce_get_accounts"
    /\ SubBlockConditions[Len(SubBlockConditions)].id = "reportMetadata"
    /\ SeqToSet(SubBlockConditions[Len(SubBlockConditions)].value)
           = {"run_report_with_filters", "create_report", "update_report"}

(***************************************************************************)
(* Properties of one run, checked under SpecRun.                           *)
(***************************************************************************)
RunSucceeded == pc = "done" /\ transformRet.k = "return"

RunFailed == pc = "failed" \/ (pc = "done" /\ transformRet.k = "throw")

\* What holds at every point of a run: at most one request; not both success
\* and error; a failed dispatch or a failed resolution of the instance URL has
\* ended the run in error with no request; after a non-OK response the run has
\* ended in error with that one request.
RunSafe ==
    /\ Len(sent) <= 1
    /\ ~(RunSucceeded /\ RunFailed)
    /\ RunEnded => (RunSucceeded \/ RunFailed)
    /\ (toolRet.k = "throw" /\ pc # "idle") => (pc = "failed" /\ sent = <<>>)
    /\ urlRet.k = "throw" => (ret.k = "throw" /\ pc = "failed" /\ sent = <<>>)
    /\ (ret.k = "throw" /\ urlRet.k # "none") => (pc = "failed" /\ sent = <<>>)
    /\ (sent # <<>> /\ ~response.ok /\ pc = "done") => (RunFailed /\ Len(sent) = 1)
    /\ RunSucceeded => (Len(sent) = 1 /\ response.ok)

====
